---- MODULE Spec2Model ----
(***************************************************************************)
(* AtlasField backend: sites, analysis records, alerts, and the alert      *)
(* policy of routers/analysis.py.                                          *)
(*                                                                         *)
(* Index values (NDVI, NBR, NDMI, means) are integers in thousandths: the  *)
(* acquisition layer rounds every mean to 3 decimals, so 0.2 is 200.       *)
(* Percentages and carbon stocks are integers in tenths (one decimal).     *)
(* An Optional number is a sequence: <<>> is None, <<v>> is the value v.   *)
(* An Optional string uses the value NULL for None.                        *)
(***************************************************************************)
EXTENDS Integers, Sequences, FiniteSets, TLC

VARIABLES sites, analyses, alerts, clock, reqs, probe

vars == <<sites, analyses, alerts, clock, reqs, probe>>

\* ---------------------------------------------------------------- bounds
MaxSites == 1
MaxAnalyses == 2
Workers == {1, 2}

\* ------------------------------------------------------------ vocabulary
NULL == "NULL"
None == <<>>
Some(v) == <<v>>

Users == {1, 2}
Owners == {1}
SiteTypes == {"FIELD", "FOREST"}
AnalysisTypes == {"NDVI", "RVI", "MOISTURE", "FUSION", "YIELD", "BIOMASS", "COMPLETE", "FOREST"}
AlertSeverities == {"LOW", "MEDIUM", "HIGH", "CRITICAL"}
AlertTypes == {"VEGETATION_HEALTH", "MOISTURE", "FIRE_RISK", "DEFORESTATION", "DROUGHT_STRESS", "PEST_DISEASE"}
ValidForestTypes == {"coniferous", "deciduous", "mixed", "tropical", "mangrove"}

\* round(n / d) to the nearest integer, d > 0 (Python's round(x, k) on the scaled value)
RoundDiv(n, d) == IF n >= 0 THEN (2 * n + d) \div (2 * d) ELSE -((2 * (-n) + d) \div (2 * d))

Min2(a, b) == IF a < b THEN a ELSE b
Max2(a, b) == IF a > b THEN a ELSE b

\* ---------------------------------------------------------- alert policy
Alert(site_id, alert_type, severity, title, message) ==
    [site_id |-> site_id, alert_type |-> alert_type, severity |-> severity,
     title |-> title, message |-> message, is_read |-> FALSE]

\* a plausible slip: the cut points belong to the more severe band
VegetationAlert_inclusive(site_id, name, analysis_type, mean_value) ==
    IF analysis_type \in {"NDVI", "COMPLETE", "FUSION"} /\ mean_value <= 400
    THEN Some(Alert(site_id, "VEGETATION_HEALTH",
                    IF mean_value <= 200 THEN "CRITICAL"
                    ELSE IF mean_value <= 300 THEN "HIGH" ELSE "MEDIUM",
                    <<"Vegetation on", name>>, <<"value", mean_value>>))
    ELSE None

\* routers/analysis.py 33-61: the vegetation-health ladder
VegetationAlert(site_id, name, analysis_type, mean_value) ==
    IF analysis_type \in {"NDVI", "COMPLETE", "FUSION"}
    THEN IF mean_value < 200
         THEN Some(Alert(site_id, "VEGETATION_HEALTH", "CRITICAL",
                         <<"Critical: Very Low Vegetation on", name>>,
                         <<"critically low values", mean_value>>))
         ELSE IF mean_value < 300
         THEN Some(Alert(site_id, "VEGETATION_HEALTH", "HIGH",
                         <<"Warning: Low Vegetation Health on", name>>,
                         <<"low health", mean_value>>))
         ELSE IF mean_value < 400
         THEN Some(Alert(site_id, "VEGETATION_HEALTH", "MEDIUM",
                         <<"Attention: Moderate Vegetation Stress on", name>>,
                         <<"moderate stress levels", mean_value>>))
         ELSE None
    ELSE None

\* routers/analysis.py 63-85: `if analysis_type == MOISTURE: if mean < 0.1: ...` and the
\* `elif mean < 0.2` that the source attaches to the type test, not to the
\* mean test
MoistureAlert(alert, site_id, name, analysis_type, mean_value) ==
    IF analysis_type = "MOISTURE"
    THEN IF mean_value < 100
         THEN Some(Alert(site_id, "DROUGHT_STRESS", "CRITICAL",
                         <<"Critical: Severe Drought on", name>>,
                         <<"severe drought conditions", mean_value>>))
         ELSE alert
    ELSE IF mean_value < 200
         THEN Some(Alert(site_id, "DROUGHT_STRESS", "HIGH",
                         <<"Warning: Low Moisture on", name>>,
                         <<"low moisture", mean_value>>))
         ELSE alert

\* routers/analysis.py 89-110: fire risk
FireAlert(alert, site_id, name, analysis_data) ==
    IF analysis_data.fire_risk_level = "critical"
    THEN Some(Alert(site_id, "FIRE_RISK", "CRITICAL",
                    <<"CRITICAL: Fire Risk on", name>>,
                    <<"CRITICAL fire risk", analysis_data.nbr, analysis_data.ndmi>>))
    ELSE IF analysis_data.fire_risk_level = "high"
    THEN Some(Alert(site_id, "FIRE_RISK", "HIGH",
                    <<"High Fire Risk on", name>>,
                    <<"elevated fire risk", analysis_data.nbr, analysis_data.ndmi>>))
    ELSE alert

\* a plausible slip: the deforestation rule keeps an alert already set
DeforestationAlert_keep(alert, site_id, name, mean_value, analysis_data) ==
    IF analysis_data.deforestation_risk = "high" /\ alert = None
    THEN Some(Alert(site_id, "DEFORESTATION", "CRITICAL",
                    <<"Deforestation Alert:", name>>,
                    <<"Significant vegetation loss", mean_value>>))
    ELSE alert

\* routers/analysis.py 112-122: deforestation, assigned after the fire rule
DeforestationAlert(alert, site_id, name, mean_value, analysis_data) ==
    IF analysis_data.deforestation_risk = "high"
    THEN Some(Alert(site_id, "DEFORESTATION", "CRITICAL",
                    <<"Deforestation Alert:", name>>,
                    <<"Significant vegetation loss", mean_value>>))
    ELSE alert

\* a plausible slip: the drought rule does not look at the alert already set
ForestDroughtAlert_override(alert, site_id, name, analysis_data) ==
    IF analysis_data.ndmi < 150
    THEN Some(Alert(site_id, "DROUGHT_STRESS", "HIGH",
                    <<"Forest Drought Stress:", name>>,
                    <<"Low moisture content", analysis_data.ndmi>>))
    ELSE alert

\* routers/analysis.py 124-134: forest drought stress, only when no alert is set yet
ForestDroughtAlert(alert, site_id, name, analysis_data) ==
    IF analysis_data.ndmi < 150 /\ alert = None
    THEN Some(Alert(site_id, "DROUGHT_STRESS", "HIGH",
                    <<"Forest Drought Stress:", name>>,
                    <<"Low moisture content", analysis_data.ndmi>>))
    ELSE alert

\* routers/analysis.py 87-134: analysis_data is None or <<record>>
ForestAlert(alert, site_id, name, mean_value, analysis_data) ==
    ForestDroughtAlert(
        DeforestationAlert(
            FireAlert(alert, site_id, name, analysis_data),
            site_id, name, mean_value, analysis_data),
        site_id, name, analysis_data)

\* routers/analysis.py 31-134: the value of the local `alert` when line 136 is reached
DecideAlert(site_id, name, analysis_type, mean_value, analysis_data) ==
    LET alert == VegetationAlert(site_id, name, analysis_type, mean_value) IN
    IF alert = None /\ analysis_type \in {"MOISTURE", "COMPLETE"}
    THEN MoistureAlert(alert, site_id, name, analysis_type, mean_value)
    ELSE IF analysis_type = "FOREST" /\ analysis_data # None
    THEN ForestAlert(alert, site_id, name, mean_value, analysis_data[1])
    ELSE alert

\* a plausible slip: every forest rule that triggers persists its own alert
create_alert_from_analysis_each(db, site_id, name, analysis_type, mean_value, analysis_data) ==
    IF analysis_type = "FOREST" /\ analysis_data # None
    THEN db \o FireAlert(None, site_id, name, analysis_data[1])
            \o DeforestationAlert(None, site_id, name, mean_value, analysis_data[1])
            \o ForestDroughtAlert(None, site_id, name, analysis_data[1])
    ELSE db \o DecideAlert(site_id, name, analysis_type, mean_value, analysis_data)

\* routers/analysis.py 22-141: the alerts table after the call (db.add + commit when alert)
create_alert_from_analysis(db, site_id, name, analysis_type, mean_value, analysis_data) ==
    db \o DecideAlert(site_id, name, analysis_type, mean_value, analysis_data)

\* ------------------------------------------------------ acquisition layer
\* what the satellite service can return for a forest scene: the rounded
\* means of get_ndvi / get_nbr / get_ndmi and the pixel statistics that
\* _classify_forest_type reduces its raster to
SceneHealthy == [ndvi |-> 600, nbr |-> 400, ndmi |-> 300, npix |-> 50, cls_ndvi |-> 500, msi |-> 1300, ndfi |-> -200]
SceneDry == [ndvi |-> 500, nbr |-> 150, ndmi |-> 100, npix |-> 50, cls_ndvi |-> 800, msi |-> 1000, ndfi |-> 0]
SceneBare == [ndvi |-> 200, nbr |-> 50, ndmi |-> 100, npix |-> 5, cls_ndvi |-> 0, msi |-> 1000, ndfi |-> 0]
ForestScenes == {SceneHealthy, SceneDry, SceneBare}

\* rounded means that get_ndvi / get_rvi / get_fused_analysis can return
MeanVals == {150}

\* outcomes of get_crop_classification: a detected type, or "raise"
CropOutcomes == {"wheat", "fallow", "UNKNOWN", "raise"}

\* sentinel_hub.py 683-724
ClassifyForestType(scene) ==
    IF scene.npix < 10
    THEN [detected_type |-> "UNKNOWN", canopy_cover_percent |-> 0]
    ELSE [detected_type |->
              IF scene.msi > 1200 /\ scene.ndfi < -100 THEN "coniferous"
              ELSE IF scene.msi < 900 /\ scene.ndfi > 0 THEN "deciduous"
              ELSE "mixed",
          canopy_cover_percent |->
              Min2(1000, Max2(0, RoundDiv((scene.cls_ndvi - 200) * 1000, 600)))]

\* sentinel_hub.py 757-765
FireRisk(nbr_mean, ndmi_mean) ==
    IF nbr_mean < 100 THEN "CRITICAL"
    ELSE IF nbr_mean < 200 /\ ndmi_mean < 200 THEN "HIGH"
    ELSE IF nbr_mean < 300 \/ ndmi_mean < 250 THEN "MEDIUM"
    ELSE "LOW"

\* sentinel_hub.py 793
DeforestationRisk(ndvi_mean) ==
    IF ndvi_mean > 400 THEN "LOW" ELSE IF ndvi_mean > 250 THEN "MEDIUM" ELSE "HIGH"

\* sentinel_hub.py 779-780, 792: carbon in tenths of t/ha
CarbonEstimate(ndvi_mean, classification) ==
    LET biomass_factor == IF classification.detected_type = "coniferous" THEN 150 ELSE 120
    IN  RoundDiv(biomass_factor * ndvi_mean * classification.canopy_cover_percent, 100000)

\* sentinel_hub.py 742-795
get_forest_analysis(scene) ==
    LET classification == ClassifyForestType(scene) IN
    [mean |-> scene.ndvi, nbr |-> scene.nbr, ndmi |-> scene.ndmi,
     fire_risk_level |-> FireRisk(scene.nbr, scene.ndmi),
     forest_classification |-> classification,
     carbon_estimate_tonnes_ha |-> CarbonEstimate(scene.ndvi, classification),
     deforestation_risk |-> DeforestationRisk(scene.ndvi)]

\* sentinel_hub.py 52-153 (get_ndvi), 156-240 (get_rvi), 242-273 (fused):
\* the field indices carry the statistics of one index, no forest keys
get_index(mean) == [mean |-> mean]

\* ------------------------------------------------------------------ sites
\* schemas.py 60-68: None passes, a valid name is lower-cased, else "raise"
Lower(s) ==
    CASE s = "Mixed" -> "mixed"
      [] s = "UNKNOWN" -> "unknown"
      [] OTHER -> s

validate_forest_type(v) ==
    IF v = NULL THEN v
    ELSE IF Lower(v) \in ValidForestTypes THEN Lower(v) ELSE "raise"

\* a plausible slip: the requested type is used as it is
EffectiveType_requested(site_type, request_type) == request_type

\* routers/analysis.py 183-185
EffectiveType(site_type, request_type) ==
    IF site_type = "FOREST" /\ request_type \in {"NDVI", "COMPLETE"}
    THEN "FOREST" ELSE request_type

\* routers/analysis.py 191-197
AutoDetectForestType(site, analysis_data) ==
    LET detected_type == analysis_data.forest_classification.detected_type IN
    IF site.site_type = "FOREST" /\ site.forest_type = NULL
       /\ detected_type # NULL /\ detected_type # "unknown"
    THEN [site EXCEPT !.forest_type = detected_type]
    ELSE site

\* routers/analysis.py 204-214 and 220-229
AutoDetectCropType(site, outcome) ==
    IF site.site_type = "FIELD" /\ site.crop_type = NULL
       /\ outcome # "raise" /\ outcome \notin {"unknown", "fallow"}
    THEN [site EXCEPT !.crop_type = outcome]
    ELSE site

\* a plausible slip: the baseline is refreshed on every forest analysis
SetBaseline_always(site, analysis_data, now) ==
    [site EXCEPT !.baseline_carbon_t_ha = Some(analysis_data.carbon_estimate_tonnes_ha),
                 !.baseline_canopy_cover = Some(analysis_data.forest_classification.canopy_cover_percent),
                 !.baseline_date = Some(now)]

\* routers/analysis.py 266-271
SetBaseline(site, analysis_data, now) ==
    IF site.baseline_carbon_t_ha = None
    THEN [site EXCEPT !.baseline_carbon_t_ha = Some(analysis_data.carbon_estimate_tonnes_ha),
                      !.baseline_canopy_cover = Some(analysis_data.forest_classification.canopy_cover_percent),
                      !.baseline_date = Some(now)]
    ELSE site

\* routers/analysis.py 245-283: the analysis_type the report is generated for
ReportType(effective_analysis_type) ==
    IF effective_analysis_type = "FOREST" THEN "FOREST" ELSE effective_analysis_type

\* routers/analysis.py 289-299
ForestData(effective_analysis_type, analysis_data) ==
    IF effective_analysis_type = "FOREST"
    THEN Some([nbr |-> analysis_data.nbr, ndmi |-> analysis_data.ndmi,
               fire_risk_level |-> analysis_data.fire_risk_level,
               forest_classification |-> analysis_data.forest_classification,
               carbon_estimate_tonnes_ha |-> analysis_data.carbon_estimate_tonnes_ha,
               deforestation_risk |-> analysis_data.deforestation_risk])
    ELSE None

\* services/analysis.py 17-28: CROP_COEFFICIENTS, base_yield in hundredths
\* of t/ha and ndvi_factor in tenths; a crop outside the table (and no
\* crop) takes the wheat row (services/analysis.py 202-205)
CropCoefficients(crop_type) ==
    IF crop_type # NULL /\ Lower(crop_type) = "corn"
    THEN [base_yield |-> 800, ndvi_factor |-> 60]
    ELSE [base_yield |-> 250, ndvi_factor |-> 40]

\* services/analysis.py 206, 211: round(base_yield + ndvi_factor * mean, 2),
\* in hundredths of t/ha
PredictedYieldPerHa(crop_type, mean_value) ==
    LET crop_coef == CropCoefficients(crop_type)
    IN  crop_coef.base_yield + RoundDiv(crop_coef.ndvi_factor * mean_value, 100)

\* the sections of data["detailed_report"] that the trend endpoints read:
\* canopy_health.canopy_cover_percent of the forest report
\* (services/analysis.py 323, 340) and yield_prediction.predicted_yield_per_ha
\* of the COMPLETE report (services/analysis.py 209-211)
DetailedReport(site, effective_analysis_type, analysis_data) ==
    [canopy_cover_percent |->
         IF effective_analysis_type = "FOREST"
         THEN Some(analysis_data.forest_classification.canopy_cover_percent) ELSE None,
     predicted_yield_per_ha |->
         IF effective_analysis_type = "COMPLETE"
         THEN Some(PredictedYieldPerHa(site.crop_type, analysis_data.mean)) ELSE None]

\* routers/analysis.py 285-312
NewAnalysis(site, effective_analysis_type, analysis_data, now) ==
    [site_id |-> site.id, analysis_type |-> effective_analysis_type,
     mean_value |-> analysis_data.mean,
     report_type |-> ReportType(effective_analysis_type),
     forest_data |-> ForestData(effective_analysis_type, analysis_data),
     detailed_report |-> DetailedReport(site, effective_analysis_type, analysis_data),
     created_at |-> now]

\* routers/analysis.py 325
AlertData(effective_analysis_type, analysis_data) ==
    IF effective_analysis_type = "FOREST" THEN Some(analysis_data) ELSE None

\* ------------------------------------------------------------- handlers
Site(id, user_id, name, site_type, crop_type, forest_type) ==
    [id |-> id, user_id |-> user_id, name |-> name, site_type |-> site_type,
     crop_type |-> crop_type, forest_type |-> forest_type,
     baseline_carbon_t_ha |-> None, baseline_canopy_cover |-> None,
     baseline_date |-> None]

\* a plausible slip: the lookup does not filter on the owner
SiteFound_anyUser(user, site_id) ==
    site_id \in DOMAIN sites

\* select(Site).where(Site.id == site_id, Site.user_id == current_user.id)
SiteFound(user, site_id) ==
    site_id \in DOMAIN sites /\ sites[site_id].user_id = user

\* what the satellite fetch of run_analysis can deliver for an effective
\* type (routers/analysis.py 187-237)
FetchOutcomes(effective_analysis_type, scenes, means) ==
    IF effective_analysis_type = "FOREST"
    THEN { get_forest_analysis(scene) : scene \in scenes }
    ELSE { get_index(mean) : mean \in means }

\* routers/analysis.py 191-229: the site after the auto-detection of the
\* fetch phase
AutoDetect(site, effective_analysis_type, analysis_data, crop) ==
    IF effective_analysis_type = "FOREST" THEN AutoDetectForestType(site, analysis_data)
    ELSE IF effective_analysis_type \in {"COMPLETE", "NDVI"} THEN AutoDetectCropType(site, crop)
    ELSE site

\* routers/sites.py 133-170, with the SiteCreate validator
create_site(user, site_type, crop_type, forest_type, max_sites) ==
    /\ Len(sites) < max_sites
    /\ IF validate_forest_type(forest_type) = "raise"
       THEN UNCHANGED sites
       ELSE sites' = Append(sites,
                  Site(Len(sites) + 1, user, "n1", site_type,
                       IF site_type = "FIELD" THEN crop_type ELSE NULL,
                       IF site_type = "FOREST" THEN validate_forest_type(forest_type) ELSE NULL))
    /\ UNCHANGED <<analyses, alerts, clock, reqs, probe>>

\* routers/sites.py 215-235: the fields update_site assigns
UpdatedSite(site, name, crop_type, forest_type) ==
    LET s1 == IF name # NULL THEN [site EXCEPT !.name = name] ELSE site
        s2 == IF s1.site_type = "FIELD" /\ crop_type # NULL
              THEN [s1 EXCEPT !.crop_type = crop_type] ELSE s1
    IN  IF s2.site_type = "FOREST" /\ forest_type # NULL
        THEN [s2 EXCEPT !.forest_type = forest_type] ELSE s2

\* routers/sites.py 195-240
update_site(user, site_id, name, crop_type, forest_type) ==
    /\ IF SiteFound(user, site_id)
       THEN sites' = [sites EXCEPT ![site_id] = UpdatedSite(@, name, crop_type, forest_type)]
       ELSE UNCHANGED sites
    /\ UNCHANGED <<analyses, alerts, clock, reqs, probe>>

\* routers/analysis.py 204, 220: get_crop_classification is only called
\* for a FIELD site without crop_type, in the COMPLETE and NDVI branches
CropAttempts(site, effective_analysis_type) ==
    IF effective_analysis_type \in {"COMPLETE", "NDVI"}
       /\ site.site_type = "FIELD" /\ site.crop_type = NULL
    THEN CropOutcomes ELSE {"raise"}

\* routers/analysis.py 144-328, run to completion without interleaving
run_analysis(user, site_id, request_type, scenes, means) ==
    /\ Len(analyses) < MaxAnalyses
    /\ IF ~SiteFound(user, site_id)
       THEN UNCHANGED <<sites, analyses, alerts, clock>>
       ELSE LET effective_analysis_type == EffectiveType(sites[site_id].site_type, request_type)
                now == clock + 1
            IN  \/ UNCHANGED <<sites, analyses, alerts, clock>>
                \/ \E analysis_data \in FetchOutcomes(effective_analysis_type, scenes, means),
                      crop \in CropAttempts(sites[site_id], effective_analysis_type) :
                       LET detected == AutoDetect(sites[site_id], effective_analysis_type, analysis_data, crop)
                           site == IF effective_analysis_type = "FOREST"
                                   THEN SetBaseline(detected, analysis_data, now)
                                   ELSE detected
                       IN  /\ sites' = [sites EXCEPT ![site_id] = site]
                           /\ analyses' = Append(analyses, NewAnalysis(site, effective_analysis_type, analysis_data, now))
                           /\ alerts' = create_alert_from_analysis(alerts, site.id, site.name,
                                            effective_analysis_type, analysis_data.mean,
                                            AlertData(effective_analysis_type, analysis_data))
                           /\ clock' = now
    /\ UNCHANGED <<reqs, probe>>

\* routers/alerts.py 18-56: read only; site_name / site_type are transient
\* attributes of the loaded objects, not columns
list_alerts(user, unread_only) ==
    UNCHANGED <<sites, analyses, alerts, clock, reqs, probe>>

\* routers/alerts.py 59-87
mark_alert_read(user, alert_id) ==
    /\ IF alert_id \in DOMAIN alerts /\ SiteFound(user, alerts[alert_id].site_id)
       THEN alerts' = [alerts EXCEPT ![alert_id].is_read = TRUE]
       ELSE UNCHANGED alerts
    /\ UNCHANGED <<sites, analyses, clock, reqs, probe>>

\* a plausible slip: the update is not restricted to the caller's sites
MarkedAll_everyone(db, site_ids) ==
    [i \in DOMAIN db |-> [db[i] EXCEPT !.is_read = TRUE]]

\* routers/alerts.py 105-110: the UPDATE statement
MarkedAll(db, site_ids) ==
    [i \in DOMAIN db |->
        IF db[i].site_id \in site_ids /\ db[i].is_read = FALSE
        THEN [db[i] EXCEPT !.is_read = TRUE] ELSE db[i]]

\* routers/alerts.py 90-111
mark_all_alerts_read(user) ==
    LET site_ids == { i \in DOMAIN sites : sites[i].user_id = user } IN
    /\ alerts' = IF site_ids = {} THEN alerts ELSE MarkedAll(alerts, site_ids)
    /\ UNCHANGED <<sites, analyses, clock, reqs, probe>>

\* ---------------------------------------------------------------- inputs
SiteIds == 1..MaxSites
RequestTypes == AnalysisTypes
CreateForestTypes == {NULL, "Mixed", "boreal"}
UpdateNames == {NULL}
UpdateCropTypes == {NULL, "wheat"}
UpdateForestTypes == {NULL, "boreal"}

IdleReq == [pc |-> "idle"]
IdleProbe == [done |-> FALSE, analysis_type |-> NULL, mean_value |-> 0, analysis_data |-> None]

\* ------------------------------------------------------- sequential spec
Init ==
    /\ sites = <<>>
    /\ analyses = <<>>
    /\ alerts = <<>>
    /\ clock = 0
    /\ reqs = [w \in Workers |-> IdleReq]
    /\ probe = IdleProbe

\* sites are registered by one user; the other user's requests for them
\* take the 404 path (the handlers treat all users alike)
CreateSite ==
    \E user \in Owners, site_type \in SiteTypes, crop_type \in {NULL, "wheat"},
       forest_type \in CreateForestTypes :
        create_site(user, site_type, crop_type, forest_type, MaxSites)

UpdateSite ==
    \E user \in Users, site_id \in SiteIds, name \in UpdateNames,
       crop_type \in UpdateCropTypes, forest_type \in UpdateForestTypes :
        update_site(user, site_id, name, crop_type, forest_type)

RunAnalysis ==
    \E user \in Users, site_id \in SiteIds, request_type \in RequestTypes :
        run_analysis(user, site_id, request_type, ForestScenes, MeanVals)

Next ==
    \/ CreateSite
    \/ UpdateSite
    \/ RunAnalysis

Spec == Init /\ [][Next]_vars

\* ------------------------------------------------------------ alerts spec
\* the alert handlers next to the handlers that rename sites and create
\* alerts, started with one FIELD site registered by each user
AlertSites == <<Site(1, 1, "n1", "FIELD", NULL, NULL), Site(2, 2, "n1", "FIELD", NULL, NULL)>>

InitAlerts ==
    /\ sites = AlertSites
    /\ analyses = <<>>
    /\ alerts = <<>>
    /\ clock = 0
    /\ reqs = [w \in Workers |-> IdleReq]
    /\ probe = IdleProbe

RenameSite ==
    \E user \in Users, site_id \in DOMAIN AlertSites :
        update_site(user, site_id, "n2", NULL, NULL)

RunAlerting ==
    \E user \in Users, site_id \in DOMAIN AlertSites :
        run_analysis(user, site_id, "NDVI", {SceneDry}, {150})

ListAlerts ==
    \E user \in Users, unread_only \in BOOLEAN : list_alerts(user, unread_only)

MarkAlertRead ==
    \E user \in Users, alert_id \in 1..MaxAnalyses : mark_alert_read(user, alert_id)

MarkAllAlertsRead ==
    \E user \in Users : mark_all_alerts_read(user)

NextAlerts ==
    \/ RenameSite
    \/ RunAlerting
    \/ ListAlerts
    \/ MarkAlertRead
    \/ MarkAllAlertsRead

SpecAlerts == InitAlerts /\ [][NextAlerts]_vars


\* -------------------------------------------------------- concurrent spec
\* run_analysis split at its awaits: each request works on the Site object
\* its own session loaded (expire_on_commit=False, database.py 19-23), and
\* every commit writes the columns that request assigned
AddSite(site_types, max_sites) ==
    \E user \in Users, site_type \in site_types :
        create_site(user, site_type, NULL, NULL, max_sites)

InFlight == { w \in Workers : reqs[w].pc # "idle" }

\* routers/analysis.py 152-185: load the site, fix the effective type
Begin(w) ==
    /\ reqs[w].pc = "idle"
    /\ Len(analyses) + Cardinality(InFlight) < MaxAnalyses
    /\ \E user \in Users, site_id \in SiteIds, request_type \in {"FOREST", "NDVI"} :
         IF SiteFound(user, site_id)
         THEN reqs' = [reqs EXCEPT ![w] =
                  [pc |-> "loaded", site |-> sites[site_id],
                   effective_analysis_type |-> EffectiveType(sites[site_id].site_type, request_type)]]
         ELSE UNCHANGED reqs
    /\ UNCHANGED <<sites, analyses, alerts, clock, probe>>

\* routers/analysis.py 187-242: the awaited fetch, then the auto-detection
\* commit, or the 503
Fetch(w) ==
    /\ reqs[w].pc = "loaded"
    /\ \/ /\ reqs' = [reqs EXCEPT ![w] = IdleReq]
          /\ UNCHANGED sites
       \/ \E analysis_data \in FetchOutcomes(reqs[w].effective_analysis_type, {SceneHealthy, SceneBare}, MeanVals),
             crop \in CropAttempts(reqs[w].site, reqs[w].effective_analysis_type) :
            LET site == AutoDetect(reqs[w].site, reqs[w].effective_analysis_type, analysis_data, crop) IN
            /\ reqs' = [reqs EXCEPT ![w] =
                   [pc |-> "fetched", site |-> site,
                    effective_analysis_type |-> reqs[w].effective_analysis_type,
                    analysis_data |-> analysis_data]]
            /\ sites' = IF site = reqs[w].site THEN sites
                        ELSE [sites EXCEPT ![site.id].forest_type = site.forest_type,
                                           ![site.id].crop_type = site.crop_type]
    /\ UNCHANGED <<analyses, alerts, clock, probe>>

\* routers/analysis.py 245-283: the report, and for FOREST the baseline
\* test on the session's own Site object and the commit of line 271
WriteBaseline(w) ==
    /\ reqs[w].pc = "fetched"
    /\ LET now == clock + 1
           site == IF reqs[w].effective_analysis_type = "FOREST"
                   THEN SetBaseline(reqs[w].site, reqs[w].analysis_data, now)
                   ELSE reqs[w].site
       IN  /\ reqs' = [reqs EXCEPT ![w].pc = "reported", ![w].site = site]
           /\ IF site = reqs[w].site
              THEN UNCHANGED <<sites, clock>>
              ELSE /\ sites' = [sites EXCEPT
                          ![site.id].baseline_carbon_t_ha = site.baseline_carbon_t_ha,
                          ![site.id].baseline_canopy_cover = site.baseline_canopy_cover,
                          ![site.id].baseline_date = site.baseline_date]
                   /\ clock' = now
    /\ UNCHANGED <<analyses, alerts, probe>>

\* routers/analysis.py 285-316: the analysis record and its commit
InsertAnalysis(w) ==
    /\ reqs[w].pc = "reported"
    /\ analyses' = Append(analyses,
           NewAnalysis(reqs[w].site, reqs[w].effective_analysis_type, reqs[w].analysis_data, clock + 1))
    /\ clock' = clock + 1
    /\ reqs' = [reqs EXCEPT ![w].pc = "recorded"]
    /\ UNCHANGED <<sites, alerts, probe>>

\* a plausible slip: the alert is committed before the analysis record and
\* the request ends there
CreateAlert_early(w) ==
    /\ reqs[w].pc = "reported"
    /\ alerts' = create_alert_from_analysis(alerts, reqs[w].site.id, reqs[w].site.name,
                     reqs[w].effective_analysis_type, reqs[w].analysis_data.mean,
                     AlertData(reqs[w].effective_analysis_type, reqs[w].analysis_data))
    /\ reqs' = [reqs EXCEPT ![w] = IdleReq]
    /\ UNCHANGED <<sites, analyses, clock, probe>>

\* routers/analysis.py 318-328: the alert and its commit
CreateAlert(w) ==
    /\ reqs[w].pc = "recorded"
    /\ alerts' = create_alert_from_analysis(alerts, reqs[w].site.id, reqs[w].site.name,
                     reqs[w].effective_analysis_type, reqs[w].analysis_data.mean,
                     AlertData(reqs[w].effective_analysis_type, reqs[w].analysis_data))
    /\ reqs' = [reqs EXCEPT ![w] = IdleReq]
    /\ UNCHANGED <<sites, analyses, clock, probe>>

NextConc ==
    \/ AddSite(SiteTypes, MaxSites)
    \/ \E w \in Workers : Begin(w)
    \/ \E w \in Workers : Fetch(w)
    \/ \E w \in Workers : WriteBaseline(w)
    \/ \E w \in Workers : InsertAnalysis(w)
    \/ \E w \in Workers : CreateAlert(w)

SpecConc == Init /\ [][NextConc]_vars

\* ------------------------------------------------------------ policy spec
\* create_alert_from_analysis applied once to every input of a bounded set
ProbeMeans == {-100, 50, 99, 100, 150, 199, 200, 250, 299, 300, 350, 399, 400, 500}
ProbeFireRisks == {"critical", "high", "medium", "low", "CRITICAL"}
ProbeDeforestationRisks == {"high", "medium", "low", "HIGH"}
ProbeNdmi == {100, 149, 150, 300}

ProbeData ==
    {None} \cup
    { Some([fire_risk_level |-> f, deforestation_risk |-> d, nbr |-> 50, ndmi |-> m]) :
        f \in ProbeFireRisks, d \in ProbeDeforestationRisks, m \in ProbeNdmi }

InitPolicy ==
    /\ \E site_type \in SiteTypes : sites = <<Site(1, 1, "n1", site_type, NULL, NULL)>>
    /\ analyses = <<>>
    /\ alerts = <<>>
    /\ clock = 0
    /\ reqs = [w \in Workers |-> IdleReq]
    /\ \E analysis_type \in AnalysisTypes, mean_value \in ProbeMeans, analysis_data \in ProbeData :
         probe = [done |-> FALSE, analysis_type |-> analysis_type,
                  mean_value |-> mean_value, analysis_data |-> analysis_data]

CallCreateAlert ==
    /\ ~probe.done
    /\ alerts' = create_alert_from_analysis(alerts, sites[1].id, sites[1].name,
                     probe.analysis_type, probe.mean_value, probe.analysis_data)
    /\ probe' = [probe EXCEPT !.done = TRUE]
    /\ UNCHANGED <<sites, analyses, clock, reqs>>

NextPolicy == CallCreateAlert

SpecPolicy == InitPolicy /\ [][NextPolicy]_vars

\* ---------------------------------------------------------- trend engine
Abs(x) == IF x < 0 THEN -x ELSE x

RECURSIVE SumSeq(_)
SumSeq(s) == IF s = <<>> THEN 0 ELSE Head(s) + SumSeq(Tail(s))

\* the elements of a set of record ids as a sequence, in ascending order
\* (ids and created_at grow together: every insert stamps a later clock)
AscSeq(ids) ==
    [i \in 1..Cardinality(ids) |->
        CHOOSE k \in ids : Cardinality({ j \in ids : j < k }) = i - 1]

Reverse(s) == [i \in 1..Len(s) |-> s[Len(s) + 1 - i]]

\* select(Analysis).where(site_id, analysis_type in types)
\*     .order_by(created_at.asc()).limit(limit)   (routers/analysis.py 493-499, 644-653)
QueryOldest(site_id, types, limit) ==
    LET ids == { k \in DOMAIN analyses :
                    analyses[k].site_id = site_id /\ analyses[k].analysis_type \in types }
    IN  AscSeq({ k \in ids : Cardinality({ j \in ids : j < k }) < limit })

\* round(x / y * 100, 1) in tenths of a percent, y # 0
PctOf(x, y) == IF y > 0 THEN RoundDiv(x * 1000, y) ELSE RoundDiv(-x * 1000, -y)

\* routers/analysis.py 543-546: calc_pct of get_forest_trends
calc_pct_forest(curr, prev) ==
    IF prev = 0 THEN Some(0) ELSE Some(PctOf(curr - prev, Abs(prev)))

\* routers/analysis.py 697-700: calc_pct of get_field_trends; curr and prev
\* are Optional
calc_pct_field(curr, prev) ==
    IF prev = None \/ curr = None \/ prev = Some(0) THEN None
    ELSE Some(PctOf(curr[1] - prev[1], Abs(prev[1])))

\* routers/analysis.py 735-738
calc_pct_raw(curr, prev) ==
    IF prev = None \/ curr = None \/ prev = Some(0) THEN 0
    ELSE PctOf(curr[1] - prev[1], Abs(prev[1]))

\* `analysis.mean_value or 0.5` (routers/analysis.py 520, 678)
MeanOrDefault(mean_value) == IF mean_value = 0 THEN 500 ELSE mean_value

\* routers/analysis.py 516-534: the values read from one FOREST record;
\* forest_data has no canopy_cover_percent key, so canopy comes from the
\* stored report
ForestValues(analysis) ==
    [ndvi |-> MeanOrDefault(analysis.mean_value),
     nbr |-> analysis.forest_data[1].nbr,
     ndmi |-> analysis.forest_data[1].ndmi,
     carbon |-> analysis.forest_data[1].carbon_estimate_tonnes_ha,
     canopy |-> analysis.detailed_report.canopy_cover_percent[1],
     fire_risk |-> analysis.forest_data[1].fire_risk_level,
     deforestation |-> analysis.forest_data[1].deforestation_risk]

\* routers/analysis.py 536-570: the entry of the i-th selected record
ForestAnalysisData(ids, i) ==
    LET cur == ForestValues(analyses[ids[i]])
        prev == ForestValues(analyses[ids[i - 1]])
    IN  [analysis_id |-> ids[i], date |-> analyses[ids[i]].created_at,
         ndvi |-> cur.ndvi, nbr |-> cur.nbr, ndmi |-> cur.ndmi,
         carbon_stock_t_ha |-> cur.carbon, canopy_cover_percent |-> cur.canopy,
         fire_risk_level |-> cur.fire_risk, deforestation_risk |-> cur.deforestation,
         ndvi_change_pct |-> IF i = 1 THEN None ELSE calc_pct_forest(cur.ndvi, prev.ndvi),
         nbr_change_pct |-> IF i = 1 THEN None ELSE calc_pct_forest(cur.nbr, prev.nbr),
         carbon_change_pct |-> IF i = 1 THEN None ELSE calc_pct_forest(cur.carbon, prev.carbon),
         canopy_change_pct |-> IF i = 1 THEN None ELSE calc_pct_forest(cur.canopy, prev.canopy)]

\* the values of the entries of a list that carry one (the lists
\* ndvi_changes, carbon_changes, yield_changes of the handlers)
Changes(entries, field) ==
    LET present == SelectSeq(entries, LAMBDA e : e[field] # None)
    IN  [i \in 1..Len(present) |-> present[i][field][1]]

\* routers/analysis.py 578-579, 727-728: round(sum / len, 1) or None
Average(changes) ==
    IF changes = <<>> THEN None ELSE Some(RoundDiv(SumSeq(changes), Len(changes)))

\* a plausible slip: the carbon average is not consulted
ForestOverallTrend_ndviOnly(avg_ndvi_change, avg_carbon_change) ==
    IF avg_ndvi_change = None \/ avg_carbon_change = None THEN "unknown"
    ELSE IF avg_ndvi_change[1] > 20 THEN "improving"
    ELSE IF avg_ndvi_change[1] < -20 THEN "declining"
    ELSE "stable"

\* routers/analysis.py 581-590; the averages are in tenths of a percent
ForestOverallTrend(avg_ndvi_change, avg_carbon_change) ==
    IF avg_ndvi_change = None \/ avg_carbon_change = None THEN "unknown"
    ELSE IF avg_ndvi_change[1] > 20 /\ avg_carbon_change[1] > 0 THEN "improving"
    ELSE IF avg_ndvi_change[1] < -20 \/ avg_carbon_change[1] < -20 THEN "declining"
    ELSE "stable"

\* routers/analysis.py 592-602: `current` is the head of the reversed list
ForestBaselineComparison(site, analysis_data_list) ==
    IF site.baseline_carbon_t_ha \in {None, Some(0)} \/ analysis_data_list = <<>> THEN None
    ELSE LET current == analysis_data_list[1] IN
         Some([baseline_date |-> site.baseline_date,
               baseline_carbon_t_ha |-> site.baseline_carbon_t_ha[1],
               baseline_canopy_cover |-> site.baseline_canopy_cover,
               carbon_change_from_baseline_pct |->
                   Some(PctOf(current.carbon_stock_t_ha - site.baseline_carbon_t_ha[1],
                              site.baseline_carbon_t_ha[1])),
               canopy_change_from_baseline_pct |->
                   IF site.baseline_canopy_cover \in {None, Some(0)} THEN None
                   ELSE Some(PctOf(current.canopy_cover_percent - site.baseline_canopy_cover[1],
                                   site.baseline_canopy_cover[1]))])

\* routers/analysis.py 501-507, 655-661
InsufficientData(message) ==
    [status |-> 200, analyses |-> <<>>, overall_trend |-> "unknown",
     has_sufficient_data |-> FALSE, message |-> message,
     avg_ndvi_change |-> None, avg_carbon_change |-> None, avg_yield_change |-> None,
     baseline_comparison |-> None]

\* a plausible slip: two comparisons are asked for, that is three records
HasSufficientData_three(ids) == Len(ids) >= 3

\* routers/analysis.py 501, 655: `len(analyses) < 2` ends the request early
HasSufficientData(ids) == Len(ids) >= 2

\* a plausible slip: the list is returned in the order it was computed
ForestTrendEntries_oldestFirst(ids) ==
    [i \in 1..Len(ids) |-> ForestAnalysisData(ids, i)]

\* routers/analysis.py 509-575: the entries, most recent first
ForestTrendEntries(ids) ==
    Reverse([i \in 1..Len(ids) |-> ForestAnalysisData(ids, i)])

\* routers/analysis.py 464-612: the response of get_forest_trends
ForestTrends(user, site_id, limit) ==
    IF ~SiteFound(user, site_id) THEN [status |-> 404]
    ELSE IF sites[site_id].site_type # "FOREST" THEN [status |-> 400]
    ELSE LET ids == QueryOldest(site_id, {"FOREST"}, limit) IN
         IF ~HasSufficientData(ids)
         THEN InsufficientData("Insufficient data: At least 2 forest analyses are required")
         ELSE LET analysis_data_list == ForestTrendEntries(ids)
                  avg_ndvi_change == Average(Changes(analysis_data_list, "ndvi_change_pct"))
                  avg_carbon_change == Average(Changes(analysis_data_list, "carbon_change_pct"))
              IN  [status |-> 200, analyses |-> analysis_data_list,
                   overall_trend |-> ForestOverallTrend(avg_ndvi_change, avg_carbon_change),
                   avg_ndvi_change |-> avg_ndvi_change,
                   avg_carbon_change |-> avg_carbon_change,
                   baseline_comparison |-> ForestBaselineComparison(sites[site_id], analysis_data_list),
                   has_sufficient_data |-> TRUE, message |-> NULL]

\* routers/analysis.py 674-690: the values read from one NDVI or COMPLETE
\* record (biomass_t_ha and moisture_pct are copied to the entry and take no
\* part in any change)
FieldValues(analysis) ==
    [ndvi |-> MeanOrDefault(analysis.mean_value),
     yield |-> analysis.detailed_report.predicted_yield_per_ha]

\* routers/analysis.py 692-719
FieldAnalysisData(ids, i) ==
    LET cur == FieldValues(analyses[ids[i]])
        prev == FieldValues(analyses[ids[i - 1]])
    IN  [analysis_id |-> ids[i], date |-> analyses[ids[i]].created_at,
         ndvi |-> cur.ndvi, yield_per_ha |-> cur.yield,
         ndvi_change_pct |-> IF i = 1 THEN None ELSE calc_pct_field(Some(cur.ndvi), Some(prev.ndvi)),
         yield_change_pct |-> IF i = 1 THEN None ELSE calc_pct_field(cur.yield, prev.yield)]

\* routers/analysis.py 663-724: the entries, most recent first
FieldTrendEntries(ids) ==
    Reverse([i \in 1..Len(ids) |-> FieldAnalysisData(ids, i)])

\* routers/analysis.py 748-757
FieldOverallTrend(avg_ndvi_change) ==
    IF avg_ndvi_change = None THEN "unknown"
    ELSE IF avg_ndvi_change[1] > 10 THEN "improving"
    ELSE IF avg_ndvi_change[1] < -10 THEN "declining"
    ELSE "stable"

\* routers/analysis.py 669-672, 730-746
FieldBaselineComparison(ids) ==
    LET first_analysis == FieldValues(analyses[ids[1]])
        last_analysis == FieldValues(analyses[ids[Len(ids)]])
    IN  Some([baseline_date |-> analyses[ids[1]].created_at,
              baseline_ndvi |-> first_analysis.ndvi,
              baseline_yield |-> first_analysis.yield,
              ndvi_change_from_baseline_pct |->
                  calc_pct_raw(Some(last_analysis.ndvi), Some(first_analysis.ndvi)),
              yield_change_from_baseline_pct |->
                  calc_pct_raw(last_analysis.yield, first_analysis.yield)])

\* routers/analysis.py 615-767: the response of get_field_trends
FieldTrends(user, site_id, limit) ==
    IF ~SiteFound(user, site_id) THEN [status |-> 404]
    ELSE IF sites[site_id].site_type # "FIELD" THEN [status |-> 400]
    ELSE LET ids == QueryOldest(site_id, {"COMPLETE", "NDVI"}, limit) IN
         IF ~HasSufficientData(ids)
         THEN InsufficientData("Insufficient data: At least 2 analyses are required")
         ELSE LET analysis_data_list == FieldTrendEntries(ids)
                  avg_ndvi_change == Average(Changes(analysis_data_list, "ndvi_change_pct"))
                  avg_yield_change == Average(Changes(analysis_data_list, "yield_change_pct"))
              IN  [status |-> 200, analyses |-> analysis_data_list,
                   overall_trend |-> FieldOverallTrend(avg_ndvi_change),
                   avg_ndvi_change |-> avg_ndvi_change,
                   avg_yield_change |-> avg_yield_change,
                   baseline_comparison |-> FieldBaselineComparison(ids),
                   has_sufficient_data |-> TRUE, message |-> NULL]

\* the read-only handlers: the response is what the observer keeps
get_forest_trends(user, site_id, limit) ==
    /\ probe' = [done |-> TRUE, call |-> "get_forest_trends", site_id |-> site_id,
                 limit |-> limit, response |-> ForestTrends(user, site_id, limit)]
    /\ UNCHANGED <<sites, analyses, alerts, clock, reqs>>

get_field_trends(user, site_id, limit) ==
    /\ probe' = [done |-> TRUE, call |-> "get_field_trends", site_id |-> site_id,
                 limit |-> limit, response |-> FieldTrends(user, site_id, limit)]
    /\ UNCHANGED <<sites, analyses, alerts, clock, reqs>>

\* ------------------------------------------------------------ trends spec
\* histories of a FOREST site (id 1) and a FIELD site (id 2) of user 1, as
\* sequential run_analysis calls leave them, then trend requests
MaxHistory == 3
DefaultLimit == 10
Limits == {1, 2, DefaultLimit}

Scene300 == [ndvi |-> 300, nbr |-> 400, ndmi |-> 300, npix |-> 50, cls_ndvi |-> 500, msi |-> 1000, ndfi |-> 0]
Scene330 == [ndvi |-> 330, nbr |-> 400, ndmi |-> 300, npix |-> 50, cls_ndvi |-> 500, msi |-> 1000, ndfi |-> 0]
Scene360 == [ndvi |-> 360, nbr |-> 0, ndmi |-> 300, npix |-> 50, cls_ndvi |-> 500, msi |-> 1000, ndfi |-> 0]
TrendScenes == {Scene300, Scene330, Scene360, SceneHealthy, SceneBare}

\* one successful run_analysis call: the site, the effective type, the fetch
TrendRuns ==
    { [site_id |-> 1, effective_analysis_type |-> "FOREST", analysis_data |-> get_forest_analysis(scene)] :
          scene \in TrendScenes }
    \cup { [site_id |-> 1, effective_analysis_type |-> "RVI", analysis_data |-> get_index(300)] }
    \cup { [site_id |-> 2, effective_analysis_type |-> t, analysis_data |-> get_index(m)] :
          t \in {"COMPLETE"}, m \in {0, 300, 330} }
    \cup { [site_id |-> 2, effective_analysis_type |-> "NDVI", analysis_data |-> get_index(300)] }

TrendSites == <<Site(1, 1, "n1", "FOREST", NULL, "mixed"), Site(2, 1, "n1", "FIELD", "wheat", NULL)>>

\* the sites after the runs: the first FOREST run of a site sets its baseline
SitesAfter(runs) ==
    [i \in DOMAIN TrendSites |->
        LET forest == { k \in DOMAIN runs : runs[k].site_id = i /\ runs[k].effective_analysis_type = "FOREST" }
        IN  IF forest = {} THEN TrendSites[i]
            ELSE LET k == CHOOSE k \in forest : \A j \in forest : k <= j
                 IN  SetBaseline(TrendSites[i], runs[k].analysis_data, k)]

InitTrends ==
    /\ \E n \in 0..MaxHistory : \E runs \in [1..n -> TrendRuns] :
          /\ sites = SitesAfter(runs)
          /\ analyses = [k \in 1..n |->
                 NewAnalysis(TrendSites[runs[k].site_id], runs[k].effective_analysis_type,
                             runs[k].analysis_data, k)]
          /\ clock = n
    /\ alerts = <<>>
    /\ reqs = [w \in Workers |-> IdleReq]
    /\ probe = IdleProbe

GetForestTrends ==
    \E user \in Users, site_id \in DOMAIN TrendSites, limit \in Limits :
        get_forest_trends(user, site_id, limit)

GetFieldTrends ==
    \E user \in Users, site_id \in DOMAIN TrendSites, limit \in Limits :
        get_field_trends(user, site_id, limit)

NextTrends ==
    \/ GetForestTrends
    \/ GetFieldTrends

SpecTrends == InitTrends /\ [][NextTrends]_vars

\* ------------------------------------------------------------ the report
\* services/analysis.py: the COMPLETE branch of generate_detailed_report and
\* the generators it calls. Index values are in thousandths, the derived
\* moisture estimate in ten-thousandths.

Rec(priority, category, title) ==
    [priority |-> priority, category |-> category, title |-> title]

Problem(severity, title) == [severity |-> severity, title |-> title]

Task(task, recommended_interval, urgency) ==
    [task |-> task, recommended_interval |-> recommended_interval, urgency |-> urgency]

\* services/analysis.py 189: moisture_value = mean_value * 0.8 + 0.1
MoistureValue(mean_value) == mean_value * 8 + 1000

generate_ndvi_recommendations(mean, min_val, max_val) ==
    (IF mean >= 600 THEN <<Rec("low", "Maintenance", "Maintain Current Practices")>>
     ELSE IF mean >= 450 THEN <<Rec("medium", "Optimization", "Consider Growth Enhancement")>>
     ELSE <<Rec("high", "Intervention", "Immediate Action Required")>>)
    \o (IF max_val - min_val > 300
        THEN <<Rec("medium", "Precision Agriculture", "Address Field Variability")>>
        ELSE <<>>)

generate_moisture_recommendations(mean) ==
    IF mean < 2000 THEN <<Rec("critical", "Irrigation", "Urgent Irrigation Required")>>
    ELSE IF mean < 3500 THEN <<Rec("high", "Irrigation", "Irrigation Recommended")>>
    ELSE <<Rec("low", "Monitoring", "Adequate Moisture")>>

generate_ndvi_problems(mean, min_val, max_val) ==
    (IF mean < 300 THEN <<Problem("critical", "Severe Vegetation Stress")>>
     ELSE IF mean < 400 THEN <<Problem("high", "Vegetation Stress Detected")>>
     ELSE <<>>)
    \o (IF min_val < 150 THEN <<Problem("medium", "Localized Problem Areas")>> ELSE <<>>)

generate_moisture_problems(mean) ==
    IF mean < 1500 THEN <<Problem("critical", "Severe Drought Conditions")>> ELSE <<>>

\* mutant: only the conditional soil moisture task is scheduled
generate_monitoring_schedule_stressOnly(mean, analysis_type) ==
    IF mean < 450 THEN <<Task("Soil moisture check", "Every 2-3 days", "High")>> ELSE <<>>

generate_monitoring_schedule(mean, analysis_type) ==
    LET interval == IF mean < 400 THEN "2-3 days" ELSE IF mean < 550 THEN "5-7 days" ELSE "7-10 days"
        urgency  == IF mean < 400 THEN "High" ELSE IF mean < 550 THEN "Medium" ELSE "Low"
    IN  << Task(IF analysis_type = "COMPLETE" THEN "Next COMPLETE analysis" ELSE "Next analysis",
                interval, urgency),
           Task("Field visual inspection", "Weekly", IF mean < 500 THEN "Medium" ELSE "Low"),
           Task("Weather monitoring", "Daily", "High") >>
        \o (IF mean < 450 THEN <<Task("Soil moisture check", "Every 2-3 days", "High")>> ELSE <<>>)

\* the seen_titles loops: the first entry of each title is kept
RECURSIVE UniqueByTitle(_, _)
UniqueByTitle(items, seen_titles) ==
    IF items = <<>> THEN <<>>
    ELSE IF Head(items).title \in seen_titles
         THEN UniqueByTitle(Tail(items), seen_titles)
         ELSE <<Head(items)>> \o UniqueByTitle(Tail(items), seen_titles \cup {Head(items).title})

\* mutant: medium sorts before high
priority_order_mediumFirst(priority) ==
    CASE priority = "high"   -> 1
      [] priority = "medium" -> 0
      [] OTHER               -> 2

\* priority_order.get(priority, 2)
priority_order(priority) ==
    CASE priority = "high"   -> 0
      [] priority = "medium" -> 1
      [] OTHER               -> 2

\* sorted() is stable: an entry goes behind every entry whose key is not larger
RECURSIVE InsertByPriority(_, _)
InsertByPriority(sorted, rec) ==
    IF sorted = <<>> THEN <<rec>>
    ELSE IF priority_order(Head(sorted).priority) <= priority_order(rec.priority)
         THEN <<Head(sorted)>> \o InsertByPriority(Tail(sorted), rec)
         ELSE <<rec>> \o sorted

RECURSIVE SortedByPriority(_)
SortedByPriority(recs) ==
    IF recs = <<>> THEN <<>>
    ELSE InsertByPriority(SortedByPriority(SubSeq(recs, 1, Len(recs) - 1)), recs[Len(recs)])

\* the candidate recommendations of a COMPLETE report, in generation order
AllRecommendations(mean_value, min_value, max_value) ==
    generate_ndvi_recommendations(mean_value, min_value, max_value)
    \o generate_moisture_recommendations(MoistureValue(mean_value))
    \o (IF mean_value > 500
        THEN <<Rec("low", "Harvest Planning", "Plan Optimal Harvest Window")>>
        ELSE <<>>)

AllProblems(mean_value, min_value, max_value) ==
    generate_ndvi_problems(mean_value, min_value, max_value)
    \o generate_moisture_problems(MoistureValue(mean_value))

\* generate_detailed_report(AnalysisType.COMPLETE, ...): cloud_coverage is in
\* tenths of a percent
generate_detailed_report(mean_value, min_value, max_value, cloud_coverage, crop_type, area_hectares) ==
    [ metadata |-> [crop_type |-> IF crop_type = NULL THEN "Unknown" ELSE crop_type,
                    area_hectares |-> IF area_hectares = None THEN 0 ELSE area_hectares[1],
                    analysis_type |-> "complete"],
      environmental_factors |->
          [data_quality |-> IF cloud_coverage < 200 THEN "Good"
                            ELSE IF cloud_coverage < 400 THEN "Moderate" ELSE "Limited",
           cloud_coverage_percent |-> cloud_coverage],
      yield_prediction |-> [predicted_yield_per_ha |-> PredictedYieldPerHa(crop_type, mean_value)],
      recommendations |->
          SortedByPriority(UniqueByTitle(AllRecommendations(mean_value, min_value, max_value), {})),
      problems |-> UniqueByTitle(AllProblems(mean_value, min_value, max_value), {}),
      monitoring_schedule |-> generate_monitoring_schedule(mean_value, "COMPLETE") ]

\* ------------------------------------------------------------ estimators

\* a float result: a number or nan
Float(v) == [nan |-> FALSE, v |-> v]
NaN == [nan |-> TRUE, v |-> 0]

\* [v for v in ndvi_history if v is not None and v > 0]
Positive(ndvi_history) == SelectSeq(ndvi_history, LAMBDA v : v # None /\ v[1] > 0)

\* services/analysis.py 1348-1351: np.mean of the positive values as the
\* fraction sum / n; np.mean([]) is nan
IntegratedNdvi(ndvi_history) ==
    IF ndvi_history # <<>>
    THEN LET positive == Positive(ndvi_history)
         IN  IF positive = <<>> THEN [nan |-> TRUE, sum |-> 0, n |-> 1]
             ELSE [nan |-> FALSE,
                   sum |-> SumSeq([k \in DOMAIN positive |-> positive[k][1]]),
                   n |-> Len(positive)]
    ELSE [nan |-> FALSE, sum |-> 500, n |-> 1]

\* yield in hundredths of t/ha for an integrated NDVI of sum / n thousandths
\* and a variation factor in thousandths
YieldPerHa(coef, integrated_ndvi, variation) ==
    IF integrated_ndvi.nan THEN NaN
    ELSE Float(RoundDiv((100 * integrated_ndvi.n * coef.base_yield
                            + coef.ndvi_factor * integrated_ndvi.sum) * variation,
                        100000 * integrated_ndvi.n))

predict_yield(ndvi_history, crop_type, area_ha, variation) ==
    [ crop |-> IF crop_type = NULL THEN "wheat" ELSE crop_type,
      area_ha |-> area_ha,
      yield_per_ha |-> YieldPerHa(CropCoefficients(crop_type), IntegratedNdvi(ndvi_history), variation),
      confidence_percent |-> Min2(95, 50 + Len(ndvi_history) * 5) ]

\* x ** 0.8 and x ** 0.6 in thousandths, for the values the clamp can yield
\* from the inputs drawn below
Pow08(x) ==
    CASE x = 10 -> 25 [] x = 100 -> 158 [] x = 500 -> 574 [] x = 1000 -> 1000

Pow06(x) ==
    CASE x = 10 -> 63 [] x = 100 -> 251 [] x = 500 -> 660 [] x = 1000 -> 1000

\* max(0.01, min(1.0, x if x else 0.5)): None and 0 are both falsy
SafeIndex(x) ==
    Max2(10, Min2(1000, IF x = None \/ x = Some(0) THEN 500 ELSE x[1]))

\* mean_biomass_t_ha in hundredths; variation in twentieths (17 = 0.85)
estimate_biomass(ndvi, rvi, variation) ==
    LET ndvi_safe == SafeIndex(Some(ndvi))
        rvi_safe  == SafeIndex(rvi)
    IN  [ ndvi_safe |-> ndvi_safe, rvi_safe |-> rvi_safe,
          mean_biomass_t_ha |->
              RoundDiv(15 * Pow08(rvi_safe) * Pow06(ndvi_safe) * variation, 200000) ]

\* n / 1000 is a binary fraction, so arithmetic on it is exact in a double
Dyadic(n) == n % 125 = 0

\* mutant: the dryness factor is not capped at 50
FireRiskSum_uncapped(nbr, ndmi) ==
    LET moisture_factor == Max2(0, Min2(100000, (1000 - ndmi) * 50))
        dryness_factor  == Max2(0, (500 - nbr) * 50)
    IN  moisture_factor + dryness_factor

\* moisture_factor + dryness_factor in thousandths of a point
FireRiskSum(nbr, ndmi) ==
    LET moisture_factor == Max2(0, Min2(100000, (1000 - ndmi) * 50))
        dryness_factor  == Max2(0, Min2(50000, (500 - nbr) * 50))
    IN  moisture_factor + dryness_factor

\* a factor computed from an input that is no binary fraction, and not
\* replaced by one of its caps, carries a rounding error
Inexact(nbr, ndmi) ==
    \/ ~Dyadic(ndmi)
    \/ ~Dyadic(nbr) /\ 0 < (500 - nbr) * 50 /\ (500 - nbr) * 50 < 50000

\* services/analysis.py 464-470: int(min(100, sum)) truncates. With an
\* inexact factor the double sum can end just below a whole value
\* (nbr = -0.491, ndmi = 0.911 gives 53 for a sum of 54), so at a whole sum
\* both results are possible outcomes.
calculate_fire_risk_score(nbr, ndmi) ==
    LET sum == FireRiskSum(nbr, ndmi)
        total == Min2(100000, sum)
    IN  {total \div 1000}
        \cup (IF sum % 1000 = 0 /\ 0 < sum /\ sum <= 100000 /\ Inexact(nbr, ndmi)
              THEN {total \div 1000 - 1} ELSE {})

\* ------------------------------------------------------- forest report
\* services/analysis.py 294-407: the sections of the forest report that
\* are computed from numbers. Carbon is in tenths of t/ha, the health score
\* in thousandths of a point.

\* a plausible slip: the cut points belong to the lower category
get_health_status_exclusive(ndvi) ==
    IF ndvi > 700 THEN "Excellent"
    ELSE IF ndvi > 500 THEN "Good"
    ELSE IF ndvi > 400 THEN "Moderate"
    ELSE IF ndvi > 300 THEN "Poor"
    ELSE "Critical"

\* services/analysis.py 863-874
get_health_status(ndvi) ==
    IF ndvi >= 700 THEN "Excellent"
    ELSE IF ndvi >= 500 THEN "Good"
    ELSE IF ndvi >= 400 THEN "Moderate"
    ELSE IF ndvi >= 300 THEN "Poor"
    ELSE "Critical"

\* ndvi_score + nbr_score + ndmi_score
ForestHealthSum(mean_value, nbr, ndmi) ==
    40 * mean_value + 15 * (nbr + 1000) + 15 * (ndmi + 1000)

\* a plausible slip: the sum is used without the clamp
ForestHealthScore_unclamped(mean_value, nbr, ndmi) ==
    ForestHealthSum(mean_value, nbr, ndmi)

\* services/analysis.py 316-320: min(100, max(0, ...))
ForestHealthScore(mean_value, nbr, ndmi) ==
    Min2(100000, Max2(0, ForestHealthSum(mean_value, nbr, ndmi)))

\* services/analysis.py 411-422
get_forest_health_status(score) ==
    IF score >= 75000 THEN "Excellent"
    ELSE IF score >= 60000 THEN "Good"
    ELSE IF score >= 45000 THEN "Moderate"
    ELSE IF score >= 30000 THEN "Poor"
    ELSE "Critical"

\* the labels the comparison of the double sum can give: with an input
\* that is no binary fraction the sum can end just below a cut point it
\* equals exactly (ndvi = 0, nbr = -0.17, ndmi = 0.17 gives 29.999...)
ForestHealthStatuses(mean_value, nbr, ndmi) ==
    LET score == ForestHealthScore(mean_value, nbr, ndmi) IN
    {get_forest_health_status(score)}
    \cup (IF score = ForestHealthSum(mean_value, nbr, ndmi)
             /\ ~(Dyadic(mean_value) /\ Dyadic(nbr) /\ Dyadic(ndmi))
          THEN {get_forest_health_status(score - 1)} ELSE {})

\* round(x, 1) of a non-negative x in thousandths, as tenths: a value half
\* way between two tenths is no double, so either neighbour can result
RoundedTenths(x) ==
    IF x % 100 = 50 THEN {x \div 100, x \div 100 + 1} ELSE {RoundDiv(x, 100)}

\* the truth value Python gives an Optional[float]
Truthy(x) == x # None /\ x[1] # 0

\* services/analysis.py 533-545, for a baseline > 0
get_carbon_trend(current, baseline) ==
    IF baseline = None THEN "Baseline not set"
    ELSE LET change == (current - baseline[1]) * 100
             b == baseline[1]
         IN  IF change >= 5 * b THEN "Increasing - Carbon gain"
             ELSE IF change >= -2 * b THEN "Stable"
             ELSE IF change >= -10 * b THEN "Decreasing - Minor carbon loss"
             ELSE "Declining - Significant carbon loss"

\* services/analysis.py 363-371; carbon_change_percent in tenths of a percent
CarbonSequestration(carbon_estimate, baseline_carbon) ==
    [ current_carbon_stock_t_ha |-> carbon_estimate,
      baseline_carbon_t_ha |-> IF Truthy(baseline_carbon) THEN baseline_carbon ELSE None,
      carbon_change_percent |->
          IF Truthy(baseline_carbon) /\ baseline_carbon[1] > 0
          THEN Some(RoundDiv((carbon_estimate - baseline_carbon[1]) * 1000, baseline_carbon[1]))
          ELSE None,
      carbon_trend |->
          IF Truthy(baseline_carbon) THEN get_carbon_trend(carbon_estimate, baseline_carbon)
          ELSE "Baseline not set" ]

\* services/analysis.py 294-407: the reports the call can return
generate_forest_detailed_report(mean_value, nbr, ndmi, fire_risk_level, carbon_estimate, baseline_carbon) ==
    { [ summary |-> [overall_health_score |-> overall_health_score,
                     health_status |-> health_status],
        fire_risk_assessment |-> [fire_risk_level |-> fire_risk_level,
                                  fire_risk_score |-> fire_risk_score],
        carbon_sequestration |-> CarbonSequestration(carbon_estimate, baseline_carbon) ] :
        overall_health_score \in RoundedTenths(ForestHealthScore(mean_value, nbr, ndmi)),
        health_status \in ForestHealthStatuses(mean_value, nbr, ndmi),
        fire_risk_score \in calculate_fire_risk_score(nbr, ndmi) }

\* ---------------------------------------------- the service specification

MaxYieldHistory == 2

ReportMeans == {-100, 0, 100, 125, 200, 250, 300, 320, 400, 450, 500, 510, 550, 600, 900}
Spreads == {0, 200}
CloudCoverages == {0, 250, 600}
CropTypes == {NULL, "corn", "Wheat"}
Areas == {None, Some(10)}
HistoryValues == {None, Some(-100), Some(0), Some(400), Some(800)}
YieldVariations == {900, 1000, 1100}
BiomassIndices == {-100, 0, 10, 100, 500, 1000, 1200}
BiomassVariations == {17, 20, 23}
FireIndices == { 125 * k - 1000 : k \in 0..16 } \cup {-491, 911, 490, -136, -364}
HealthValues == {-100, 0, 299, 300, 399, 400, 499, 500, 699, 700, 1000}
ForestMeans == {-1000, 0, 600, 601, 605, 1000, 1200}
ForestNbrs == {-1000, -170, 500, 1000}
ForestNdmis == {-1000, 170, 500, 1000}
CarbonEstimates == {0, 350, 360, 380, 392, 400, 420, 800}
BaselineCarbons == {None, Some(0), Some(400)}

ServiceCalls ==
    { [done |-> FALSE, call |-> "generate_detailed_report", mean_value |-> m,
       min_value |-> m - lo, max_value |-> m + hi, cloud_coverage |-> c,
       crop_type |-> t, area_hectares |-> a] :
         m \in ReportMeans, lo \in Spreads, hi \in Spreads, c \in CloudCoverages,
         t \in CropTypes, a \in Areas }
    \cup
    { [done |-> FALSE, call |-> "predict_yield", ndvi_history |-> h, crop_type |-> t,
       area_ha |-> 10, variation |-> v] :
         h \in UNION { [1..n -> HistoryValues] : n \in 0..MaxYieldHistory },
         t \in CropTypes, v \in YieldVariations }
    \cup
    { [done |-> FALSE, call |-> "estimate_biomass", ndvi |-> n, rvi |-> r, variation |-> v] :
         n \in BiomassIndices, r \in {None} \cup { Some(x) : x \in BiomassIndices },
         v \in BiomassVariations }
    \cup
    { [done |-> FALSE, call |-> "fire_risk_score", nbr |-> n, ndmi |-> m] :
         n \in FireIndices, m \in FireIndices }
    \cup
    { [done |-> FALSE, call |-> "get_health_status", ndvi |-> v] : v \in HealthValues }
    \cup
    { [done |-> FALSE, call |-> "generate_forest_detailed_report", mean_value |-> m,
       nbr |-> n, ndmi |-> d, fire_risk_level |-> FireRisk(n, d),
       carbon_estimate |-> c, baseline_carbon |-> b] :
         m \in ForestMeans, n \in ForestNbrs, d \in ForestNdmis,
         c \in CarbonEstimates, b \in BaselineCarbons }

InitService ==
    /\ sites = <<>>
    /\ analyses = <<>>
    /\ alerts = <<>>
    /\ clock = 0
    /\ reqs = [w \in Workers |-> IdleReq]
    /\ probe \in ServiceCalls

Returned(result) ==
    /\ probe' = [ f \in DOMAIN probe \cup {"result"} |->
                    IF f = "done" THEN TRUE ELSE IF f = "result" THEN result ELSE probe[f] ]
    /\ UNCHANGED <<sites, analyses, alerts, clock, reqs>>

GenerateDetailedReport ==
    /\ ~probe.done /\ probe.call = "generate_detailed_report"
    /\ Returned(generate_detailed_report(probe.mean_value, probe.min_value, probe.max_value,
                    probe.cloud_coverage, probe.crop_type, probe.area_hectares))

PredictYield ==
    /\ ~probe.done /\ probe.call = "predict_yield"
    /\ Returned(predict_yield(probe.ndvi_history, probe.crop_type, probe.area_ha, probe.variation))

EstimateBiomass ==
    /\ ~probe.done /\ probe.call = "estimate_biomass"
    /\ Returned(estimate_biomass(probe.ndvi, probe.rvi, probe.variation))

CalculateFireRiskScore ==
    /\ ~probe.done /\ probe.call = "fire_risk_score"
    /\ \E score \in calculate_fire_risk_score(probe.nbr, probe.ndmi) : Returned(score)

GetHealthStatus ==
    /\ ~probe.done /\ probe.call = "get_health_status"
    /\ Returned(get_health_status(probe.ndvi))

GenerateForestDetailedReport ==
    /\ ~probe.done /\ probe.call = "generate_forest_detailed_report"
    /\ \E report \in generate_forest_detailed_report(probe.mean_value, probe.nbr, probe.ndmi,
                         probe.fire_risk_level, probe.carbon_estimate, probe.baseline_carbon) :
          Returned(report)

NextService ==
    \/ GenerateDetailedReport
    \/ PredictYield
    \/ EstimateBiomass
    \/ CalculateFireRiskScore
    \/ GetHealthStatus
    \/ GenerateForestDetailedReport

SpecService == InitService /\ [][NextService]_vars

\* ------------------------------------------------- requests and responses
\* run_analysis, list_sites and the biomass endpoint with the response of
\* the last request kept in probe; two sites of user 1 are registered

MaxRuns == 2

RunSites == <<Site(1, 1, "n1", "FOREST", NULL, NULL), Site(2, 1, "n2", "FIELD", NULL, NULL)>>

\* forest scenes whose NDMI is above the forest drought rule's 0.15
SceneBurnt == [ndvi |-> 600, nbr |-> 50, ndmi |-> 300, npix |-> 50, cls_ndvi |-> 500, msi |-> 1300, ndfi |-> -200]
SceneParched == [ndvi |-> 600, nbr |-> 150, ndmi |-> 180, npix |-> 50, cls_ndvi |-> 500, msi |-> 1300, ndfi |-> -200]
RunScenes == {SceneHealthy, SceneBurnt, SceneParched}
RunMeans == {100, 1000}
RunRequestTypes == {"FOREST", "NDVI", "RVI"}

\* fetch: whether the awaited acquisition call was "not_called", "raised"
\* or "returned"
RunResponse(status, fetch, user, site_id, request_type) ==
    [done |-> TRUE, call |-> "run_analysis", user |-> user, site_id |-> site_id,
     request_type |-> request_type, fetch |-> fetch, status |-> status]

\* routers/analysis.py 144-328 with its HTTP status: 404 when the site is
\* not found for the caller, 503 when the awaited fetch raises (nothing is
\* committed before it), 200 with the commits of the run otherwise
run_analysis_response(user, site_id, request_type, scenes, means) ==
    IF ~SiteFound(user, site_id)
    THEN /\ probe' = RunResponse(404, "not_called", user, site_id, request_type)
         /\ UNCHANGED <<sites, analyses, alerts, clock, reqs>>
    ELSE LET effective_analysis_type == EffectiveType(sites[site_id].site_type, request_type)
             now == clock + 1
         IN  \/ /\ probe' = RunResponse(503, "raised", user, site_id, request_type)
                /\ UNCHANGED <<sites, analyses, alerts, clock, reqs>>
             \/ /\ Len(analyses) < MaxRuns
                /\ \E analysis_data \in FetchOutcomes(effective_analysis_type, scenes, means),
                      crop \in CropAttempts(sites[site_id], effective_analysis_type) :
                       LET detected == AutoDetect(sites[site_id], effective_analysis_type, analysis_data, crop)
                           site == IF effective_analysis_type = "FOREST"
                                   THEN SetBaseline(detected, analysis_data, now)
                                   ELSE detected
                       IN  /\ sites' = [sites EXCEPT ![site_id] = site]
                           /\ analyses' = Append(analyses, NewAnalysis(site, effective_analysis_type, analysis_data, now))
                           /\ alerts' = create_alert_from_analysis(alerts, site.id, site.name,
                                            effective_analysis_type, analysis_data.mean,
                                            AlertData(effective_analysis_type, analysis_data))
                           /\ clock' = now
                /\ probe' = RunResponse(200, "returned", user, site_id, request_type)
                /\ UNCHANGED reqs

\* Analysis.data: raw_data of the fetch (source, index, pixel_count for the
\* field indices, nothing for a forest analysis) with the keys
\* "detailed_report" and, for FOREST, "forest_data" added
\* (routers/analysis.py 285-299); .get of any other key is None
DataGet(analysis, key) ==
    CASE key = "forest_data" -> analysis.forest_data
      [] key = "detailed_report" -> Some(analysis.detailed_report)
      [] OTHER -> None

\* max(records, key=created_at)
Latest(ks) == CHOOSE k \in ks : \A j \in ks : analyses[j].created_at <= analyses[k].created_at

\* routers/sites.py 72-117: one entry of the list_sites response
SiteWithAnalysis(i) ==
    LET mine == { k \in DOMAIN analyses : analyses[k].site_id = i }
        forest_analyses == { k \in mine : analyses[k].analysis_type = "FOREST" }
        relevant_analyses == { k \in mine : analyses[k].analysis_type \in {"NDVI", "COMPLETE"} }
        forest == sites[i].site_type = "FOREST" /\ forest_analyses # {}
    IN  [ id |-> i,
          latest_ndvi |-> IF forest THEN Some(analyses[Latest(forest_analyses)].mean_value)
                          ELSE IF relevant_analyses # {}
                          THEN Some(analyses[Latest(relevant_analyses)].mean_value)
                          ELSE None,
          latest_analysis_date |->
                          IF forest THEN Some(analyses[Latest(forest_analyses)].created_at)
                          ELSE IF relevant_analyses # {}
                          THEN Some(analyses[Latest(relevant_analyses)].created_at)
                          ELSE None,
          latest_nbr |-> IF forest THEN DataGet(analyses[Latest(forest_analyses)], "nbr") ELSE None,
          fire_risk_level |->
              IF forest THEN DataGet(analyses[Latest(forest_analyses)], "fire_risk_level") ELSE None,
          alert_count |-> Cardinality({ a \in DOMAIN alerts :
                                          alerts[a].site_id = i /\ ~alerts[a].is_read }) ]

\* routers/sites.py 54-131
list_sites(user) ==
    /\ probe' = [done |-> TRUE, call |-> "list_sites", user |-> user,
                 response |-> [ i \in { j \in DOMAIN sites : sites[j].user_id = user } |->
                                  SiteWithAnalysis(i) ]]
    /\ UNCHANGED <<sites, analyses, alerts, clock, reqs>>

\* order_by(created_at.desc()).limit(5): record ids, newest first
LatestFive(site_id) ==
    LET mine == QueryOldest(site_id, AnalysisTypes, Len(analyses))
        newest_first == Reverse(mine)
    IN  SubSeq(newest_first, 1, Min2(5, Len(newest_first)))

\* routers/analysis.py 449-456: the loop assigns at every matching record,
\* so the value of the last one visited stays
RECURSIVE LoopValue(_, _, _)
LoopValue(ids, analysis_type, value) ==
    IF ids = <<>> THEN value
    ELSE LoopValue(Tail(ids), analysis_type,
                   IF analyses[Head(ids)].analysis_type = analysis_type
                      /\ analyses[Head(ids)].mean_value # 0
                   THEN analyses[Head(ids)].mean_value ELSE value)

\* routers/analysis.py 419-461
estimate_biomass_endpoint(user, site_id, variation) ==
    /\ probe' = [done |-> TRUE, call |-> "estimate_biomass", user |-> user, site_id |-> site_id,
                 variation |-> variation,
                 status |-> IF SiteFound(user, site_id) THEN 200 ELSE 404,
                 response |->
                     IF SiteFound(user, site_id)
                     THEN Some(estimate_biomass(LoopValue(LatestFive(site_id), "NDVI", 500),
                                                Some(LoopValue(LatestFive(site_id), "RVI", 500)),
                                                variation))
                     ELSE None]
    /\ UNCHANGED <<sites, analyses, alerts, clock, reqs>>

InitRun ==
    /\ sites = RunSites
    /\ analyses = <<>>
    /\ alerts = <<>>
    /\ clock = 0
    /\ reqs = [w \in Workers |-> IdleReq]
    /\ probe = IdleProbe

RunAnalysisRequest ==
    \E user \in Users, site_id \in 1..(Len(RunSites) + 1), request_type \in RunRequestTypes :
        run_analysis_response(user, site_id, request_type, RunScenes, RunMeans)

ListSites == \E user \in Users : list_sites(user)

EstimateBiomassRequest ==
    \E user \in Users, site_id \in DOMAIN RunSites : estimate_biomass_endpoint(user, site_id, 20)

NextRun ==
    \/ RunAnalysisRequest
    \/ ListSites
    \/ EstimateBiomassRequest

SpecRun == InitRun /\ [][NextRun]_vars

\* ----------------------------------------------------------------- claims
Baseline(site) ==
    <<site.baseline_carbon_t_ha, site.baseline_canopy_cover, site.baseline_date>>

\* alert_type and severity of the alerts in a table
Kinds(db) == [i \in DOMAIN db |-> <<db[i].alert_type, db[i].severity>>]

\* C1: under sequential execution, once a site's baseline_carbon_t_ha is
\* non-null no run_analysis or update_site call changes baseline_carbon_t_ha,
\* baseline_canopy_cover or baseline_date
C1_BaselineImmutable ==
    [][\A i \in DOMAIN sites :
          sites[i].baseline_carbon_t_ha # None => Baseline(sites'[i]) = Baseline(sites[i])]_vars

\* a later FOREST record with another carbon estimate exists next to the baseline
C1_Witness ==
    \E i \in DOMAIN sites, k \in DOMAIN analyses :
        /\ sites[i].baseline_carbon_t_ha # None
        /\ analyses[k].site_id = i
        /\ analyses[k].analysis_type = "FOREST"
        /\ Some(analyses[k].created_at) # sites[i].baseline_date
        /\ Some(analyses[k].forest_data[1].carbon_estimate_tonnes_ha) # sites[i].baseline_carbon_t_ha

\* C2: when run_analysis requests for one site interleave at their awaits,
\* the baseline carbon committed by the first writer is never overwritten
C2_BaselineInitialisedOnce ==
    [][\A i \in DOMAIN sites :
          sites[i].baseline_carbon_t_ha # None
              => sites'[i].baseline_carbon_t_ha = sites[i].baseline_carbon_t_ha]_vars

\* C3: one call of create_alert_from_analysis persists zero or one alert,
\* also when several alert rules trigger at once
C3_AtMostOneAlert ==
    probe.done => Len(alerts) <= 1

\* fire, deforestation and drought rules all trigger; one alert is stored
C3_Witness ==
    /\ probe.done
    /\ probe.analysis_type = "FOREST"
    /\ probe.analysis_data # None
    /\ probe.analysis_data[1].fire_risk_level = "critical"
    /\ probe.analysis_data[1].deforestation_risk = "high"
    /\ probe.analysis_data[1].ndmi < 150
    /\ Len(alerts) = 1

\* the forest alert the claim C4 describes, as <<alert_type, severity>>
C4_Claimed(analysis_data) ==
    IF analysis_data.deforestation_risk = "high" THEN << <<"DEFORESTATION", "CRITICAL">> >>
    ELSE IF analysis_data.fire_risk_level = "critical" THEN << <<"FIRE_RISK", "CRITICAL">> >>
    ELSE IF analysis_data.fire_risk_level = "high" THEN << <<"FIRE_RISK", "HIGH">> >>
    ELSE IF analysis_data.ndmi < 150 THEN << <<"DROUGHT_STRESS", "HIGH">> >>
    ELSE <<>>

\* C4: for a FOREST analysis with analysis_data, the alert is the CRITICAL
\* DEFORESTATION alert when deforestation_risk is "high" (replacing a fire
\* alert), else the FIRE_RISK alert of fire_risk critical / high, else the
\* HIGH DROUGHT_STRESS alert when ndmi < 0.15, else none
C4_ForestAlertRules ==
    (probe.done /\ probe.analysis_type = "FOREST" /\ probe.analysis_data # None)
        => Kinds(alerts) = C4_Claimed(probe.analysis_data[1])

\* a critical fire risk with high deforestation risk ends as DEFORESTATION
C4_Witness ==
    /\ probe.done
    /\ probe.analysis_type = "FOREST"
    /\ probe.analysis_data # None
    /\ probe.analysis_data[1].fire_risk_level = "critical"
    /\ probe.analysis_data[1].deforestation_risk = "high"
    /\ Kinds(alerts) = << <<"DEFORESTATION", "CRITICAL">> >>

\* C5: a MOISTURE analysis gives a CRITICAL DROUGHT_STRESS alert for
\* mean < 0.1, a HIGH DROUGHT_STRESS alert for 0.1 <= mean < 0.2, and no
\* alert for mean >= 0.2
C5_MoistureAlertRules ==
    (probe.done /\ probe.analysis_type = "MOISTURE")
        => Kinds(alerts) =
              IF probe.mean_value < 100 THEN << <<"DROUGHT_STRESS", "CRITICAL">> >>
              ELSE IF probe.mean_value < 200 THEN << <<"DROUGHT_STRESS", "HIGH">> >>
              ELSE <<>>

\* C6: NDVI, COMPLETE and FUSION give exactly one VEGETATION_HEALTH alert,
\* CRITICAL for mean < 0.2, HIGH for [0.2, 0.3), MEDIUM for [0.3, 0.4), and
\* no alert of any type for mean >= 0.4
C6_VegetationAlertRules ==
    (probe.done /\ probe.analysis_type \in {"NDVI", "COMPLETE", "FUSION"})
        => Kinds(alerts) =
              IF probe.mean_value < 200 THEN << <<"VEGETATION_HEALTH", "CRITICAL">> >>
              ELSE IF probe.mean_value < 300 THEN << <<"VEGETATION_HEALTH", "HIGH">> >>
              ELSE IF probe.mean_value < 400 THEN << <<"VEGETATION_HEALTH", "MEDIUM">> >>
              ELSE <<>>

\* NDVI 0.15 has given one CRITICAL VEGETATION_HEALTH alert
C6_Witness ==
    /\ probe.done
    /\ probe.analysis_type = "NDVI"
    /\ probe.mean_value = 150
    /\ Kinds(alerts) = << <<"VEGETATION_HEALTH", "CRITICAL">> >>

\* the analysis types whose alert rules can have produced an alert
RulesOf(alert) ==
    IF alert.alert_type = "VEGETATION_HEALTH" THEN {"NDVI", "COMPLETE", "FUSION"}
    ELSE IF alert.alert_type \in {"FIRE_RISK", "DEFORESTATION"} THEN {"FOREST"}
    ELSE IF alert.title[1] = "Forest Drought Stress:" THEN {"FOREST"}
    ELSE {"MOISTURE", "COMPLETE"}

\* C7: NDVI and COMPLETE requests on a FOREST site are stored as FOREST
\* records, so a FOREST site has no NDVI or COMPLETE record; the report is
\* generated for the stored type and every alert comes from the rules of the
\* type of a stored record of its site
C7_EffectiveType ==
    /\ \A k \in DOMAIN analyses :
         /\ sites[analyses[k].site_id].site_type = "FOREST"
                => analyses[k].analysis_type \notin {"NDVI", "COMPLETE"}
         /\ analyses[k].report_type = analyses[k].analysis_type
         /\ (analyses[k].forest_data # None) = (analyses[k].analysis_type = "FOREST")
    /\ \A a \in DOMAIN alerts :
         \E k \in DOMAIN analyses :
            /\ analyses[k].site_id = alerts[a].site_id
            /\ analyses[k].analysis_type \in RulesOf(alerts[a])

\* a FOREST site holds a FOREST record with a forest report and the forest
\* drought alert of that run
C7_Witness ==
    \E k \in DOMAIN analyses, a \in DOMAIN alerts :
        /\ sites[analyses[k].site_id].site_type = "FOREST"
        /\ analyses[k].analysis_type = "FOREST"
        /\ analyses[k].report_type = "FOREST"
        /\ alerts[a].site_id = analyses[k].site_id
        /\ alerts[a].title[1] = "Forest Drought Stress:"

\* C8: every site's forest_type is unset or one of coniferous, deciduous,
\* mixed, tropical, mangrove
C8_ForestTypeValid ==
    \A i \in DOMAIN sites : sites[i].forest_type \in ValidForestTypes \cup {NULL}

\* the stored fields of an alert other than is_read
Frozen(alert) ==
    <<alert.site_id, alert.alert_type, alert.severity, alert.title, alert.message>>

\* C9: no operation changes site_id, alert_type, severity, title or message
\* of a stored alert, and mark_all_alerts_read changes is_read only for
\* alerts on sites owned by the calling user
C9_AlertsFrame ==
    [][/\ \A a \in DOMAIN alerts :
            a \in DOMAIN alerts' /\ Frozen(alerts'[a]) = Frozen(alerts[a])
       /\ \A user \in Users :
            mark_all_alerts_read(user)
                => \A a \in DOMAIN alerts :
                       alerts'[a].is_read # alerts[a].is_read
                           => sites[alerts[a].site_id].user_id = user]_vars

\* a read alert of a renamed site next to an unread alert of another owner
C9_Witness ==
    \E a, b \in DOMAIN alerts :
        /\ alerts[a].is_read
        /\ ~alerts[b].is_read
        /\ sites[alerts[a].site_id].user_id # sites[alerts[b].site_id].user_id
        /\ alerts[a].title[2] # sites[alerts[a].site_id].name

\* the FOREST records of a site, in commit order
ForestRecords(i) ==
    { k \in DOMAIN analyses : analyses[k].site_id = i /\ analyses[k].analysis_type = "FOREST" }

Earliest(ks) == CHOOSE k \in ks : \A j \in ks : k <= j

\* C10: a set baseline_carbon_t_ha equals the carbon estimate of the site's
\* earliest stored FOREST record
C10_BaselineIsFirstRecord ==
    \A i \in DOMAIN sites :
        (sites[i].baseline_carbon_t_ha # None /\ ForestRecords(i) # {})
            => sites[i].baseline_carbon_t_ha =
                   Some(analyses[Earliest(ForestRecords(i))].forest_data[1].carbon_estimate_tonnes_ha)

\* the trend request the observer holds the response of
TrendCall == probe.done /\ probe.call \in {"get_forest_trends", "get_field_trends"}

\* the stored records that qualify for the observed trend request
Qualifying ==
    { k \in DOMAIN analyses :
        /\ analyses[k].site_id = probe.site_id
        /\ analyses[k].analysis_type \in
               (IF probe.call = "get_forest_trends" THEN {"FOREST"} ELSE {"COMPLETE", "NDVI"}) }

IsInsufficient(response) ==
    /\ response.analyses = <<>>
    /\ response.overall_trend = "unknown"
    /\ response.has_sufficient_data = FALSE
    /\ response.message # NULL

TrendMetrics ==
    IF probe.call = "get_forest_trends"
    THEN { <<"ndvi", "ndvi_change_pct">>, <<"nbr", "nbr_change_pct">>,
           <<"carbon_stock_t_ha", "carbon_change_pct">>,
           <<"canopy_cover_percent", "canopy_change_pct">> }
    ELSE { <<"ndvi", "ndvi_change_pct">>, <<"yield_per_ha", "yield_change_pct">> }

\* a value of a trend entry that is 0 or absent (yield_per_ha is the one
\* Optional value of an entry)
ZeroOrAbsent(entry, value) ==
    IF value = "yield_per_ha" THEN entry[value] \in {None, Some(0)} ELSE entry[value] = 0

\* the average of the changes of the pairs whose previous value is usable;
\* the entries are most recent first, so the predecessor of entry i is i + 1
AverageOfUsable(entries, value, change) ==
    LET usable == { i \in 1..(Len(entries) - 1) :
                       ~ZeroOrAbsent(entries[i + 1], value) /\ entries[i][change] # None }
        order == AscSeq(usable)
    IN  Average([j \in 1..Len(order) |-> entries[order[j]][change][1]])

\* C12: in a trend response, for every consecutive pair and every metric, a
\* previous value that is 0 or absent gives a null change for the pair, and
\* the pair adds nothing to the average change
C12_ZeroPrevIsNull ==
    (TrendCall /\ probe.response.status = 200 /\ probe.response.has_sufficient_data)
        => LET entries == probe.response.analyses IN
           /\ \A i \in 1..(Len(entries) - 1) : \A m \in TrendMetrics :
                 ZeroOrAbsent(entries[i + 1], m[1]) => entries[i][m[2]] = None
           /\ probe.response.avg_ndvi_change =
                 AverageOfUsable(entries, "ndvi", "ndvi_change_pct")
           /\ probe.call = "get_forest_trends" =>
                 probe.response.avg_carbon_change =
                     AverageOfUsable(entries, "carbon_stock_t_ha", "carbon_change_pct")
           /\ probe.call = "get_field_trends" =>
                 probe.response.avg_yield_change =
                     AverageOfUsable(entries, "yield_per_ha", "yield_change_pct")

\* the forest trend classification the claim C13 gives for two averages in
\* tenths of a percent
C13_Claimed(avg_ndvi_change, avg_carbon_change) ==
    IF avg_ndvi_change > 20 /\ avg_carbon_change > 0 THEN "improving"
    ELSE IF avg_ndvi_change < -20 \/ avg_carbon_change < -20 THEN "declining"
    ELSE "stable"

\* C13: with at least 2 FOREST analyses selected, overall_trend is
\* "improving" iff avg_ndvi_change > 2 and avg_carbon_change > 0, else
\* "declining" iff avg_ndvi_change < -2 or avg_carbon_change < -2, else
\* "stable"
C13_ForestOverallTrend ==
    (probe.done /\ probe.call = "get_forest_trends" /\ probe.response.status = 200
        /\ probe.response.has_sufficient_data)
        => /\ probe.response.avg_ndvi_change # None
           /\ probe.response.avg_carbon_change # None
           /\ probe.response.overall_trend =
                  C13_Claimed(probe.response.avg_ndvi_change[1], probe.response.avg_carbon_change[1])

\* the history 0.3, 0.33, 0.36 with a rising carbon stock: the average NDVI
\* change is about 10 % and the trend is "improving"
C13_Witness ==
    /\ probe.done /\ probe.call = "get_forest_trends" /\ probe.response.status = 200
    /\ Len(probe.response.analyses) = 3
    /\ probe.response.analyses[3].ndvi = 300
    /\ probe.response.analyses[2].ndvi = 330
    /\ probe.response.analyses[1].ndvi = 360
    /\ probe.response.analyses[3].carbon_stock_t_ha < probe.response.analyses[2].carbon_stock_t_ha
    /\ probe.response.analyses[2].carbon_stock_t_ha < probe.response.analyses[1].carbon_stock_t_ha
    /\ probe.response.avg_ndvi_change \in {Some(95), Some(96)}
    /\ probe.response.overall_trend = "improving"

\* the change the handlers compute for one metric of an entry against an
\* older entry
ChangeAgainst(entry, older, m) ==
    IF probe.call = "get_forest_trends" THEN calc_pct_forest(entry[m[1]], older[m[1]])
    ELSE IF m[1] = "ndvi" THEN calc_pct_field(Some(entry.ndvi), Some(older.ndvi))
    ELSE calc_pct_field(entry[m[1]], older[m[1]])

\* C14: a trend response lists its entries most recent first; the oldest
\* returned entry has every change field null, and the change fields of every
\* other entry are computed against the entry that follows it in the list,
\* which is its chronological predecessor among the qualifying records
C14_NewestFirst ==
    (TrendCall /\ probe.response.status = 200 /\ probe.response.has_sufficient_data)
        => LET entries == probe.response.analyses
               n == Len(entries)
           IN  /\ \A i \in 1..(n - 1) :
                     /\ entries[i].date > entries[i + 1].date
                     /\ entries[i + 1].analysis_id \in Qualifying
                     /\ \A k \in Qualifying :
                           ~(entries[i + 1].analysis_id < k /\ k < entries[i].analysis_id)
                     /\ \A m \in TrendMetrics :
                           entries[i][m[2]] = ChangeAgainst(entries[i], entries[i + 1], m)
               /\ \A m \in TrendMetrics : entries[n][m[2]] = None

\* three entries, newest first, the middle one with a change against the oldest
C14_Witness ==
    /\ TrendCall /\ probe.response.status = 200
    /\ Len(probe.response.analyses) = 3
    /\ probe.response.analyses[1].date > probe.response.analyses[3].date
    /\ probe.response.analyses[2].ndvi # probe.response.analyses[3].ndvi
    /\ probe.response.analyses[2].ndvi # probe.response.analyses[1].ndvi
    /\ probe.response.analyses[2].ndvi_change_pct # None
    /\ probe.response.analyses[2].ndvi_change_pct # Some(0)
    /\ probe.response.analyses[3].ndvi_change_pct = None

\* the most recent stored FOREST record of the observed site
NewestQualifying == CHOOSE k \in Qualifying : \A j \in Qualifying : j <= k

\* C15: the baseline comparison of get_forest_trends is computed from the
\* site's most recent stored FOREST analysis, also when more than `limit`
\* FOREST analyses are stored
C15_BaselineAgainstNewest ==
    (probe.done /\ probe.call = "get_forest_trends" /\ probe.response.status = 200
        /\ probe.response.baseline_comparison # None)
        => LET newest == ForestValues(analyses[NewestQualifying])
               comparison == probe.response.baseline_comparison[1]
           IN  /\ probe.response.analyses[1].analysis_id = NewestQualifying
               /\ comparison.carbon_change_from_baseline_pct =
                      Some(PctOf(newest.carbon - comparison.baseline_carbon_t_ha,
                                 comparison.baseline_carbon_t_ha))

ReportCall == probe.done /\ probe.call = "generate_detailed_report"

DistinctTitles(items) ==
    \A i, j \in DOMAIN items : items[i].title = items[j].title => i = j

\* C16: for every input the COMPLETE report has a non-empty recommendations
\* list and a non-empty monitoring_schedule, and neither its recommendations
\* nor its problems contain two entries with the same title
C16_CompleteReportLists ==
    ReportCall =>
        /\ probe.result.recommendations # <<>>
        /\ probe.result.monitoring_schedule # <<>>
        /\ DistinctTitles(probe.result.recommendations)
        /\ DistinctTitles(probe.result.problems)

C16_Witness ==
    /\ ReportCall
    /\ Len(probe.result.recommendations) >= 3
    /\ Len(probe.result.problems) >= 3

\* the position at which a title is first generated
FirstGenerated(generated, title) ==
    CHOOSE i \in DOMAIN generated :
        /\ generated[i].title = title
        /\ \A j \in DOMAIN generated : generated[j].title = title => i <= j

\* C17: the recommendations of a COMPLETE report are ordered high, then
\* medium, then low; of the candidates sharing a title exactly the first
\* generated one is kept; entries of equal priority stay in generation order
\* (NDVI-derived, moisture-derived, harvest planning)
C17_SortedByPriority ==
    ReportCall =>
        LET recs == probe.result.recommendations
            generated == AllRecommendations(probe.mean_value, probe.min_value, probe.max_value)
        IN  /\ \A i, j \in DOMAIN recs :
                  i < j => /\ recs[j].priority = "high" => recs[i].priority = "high"
                           /\ recs[j].priority = "medium" => recs[i].priority \in {"high", "medium"}
                           /\ recs[i].priority = "low" => recs[j].priority \notin {"high", "medium"}
            /\ \A i \in DOMAIN recs : recs[i] = generated[FirstGenerated(generated, recs[i].title)]
            /\ \A k \in DOMAIN generated : \E i \in DOMAIN recs : recs[i].title = generated[k].title
            /\ \A i, j \in DOMAIN recs :
                  (i < j /\ recs[i].priority = recs[j].priority)
                      => FirstGenerated(generated, recs[i].title)
                             < FirstGenerated(generated, recs[j].title)

\* sorting moved an entry, and three entries of one priority kept their order
C17_Witness ==
    /\ ReportCall
    /\ probe.result.recommendations
           # AllRecommendations(probe.mean_value, probe.min_value, probe.max_value)
    /\ \E i \in DOMAIN probe.result.recommendations :
          /\ i + 2 \in DOMAIN probe.result.recommendations
          /\ probe.result.recommendations[i].priority = "low"
          /\ probe.result.recommendations[i + 2].priority = "low"

\* C18: predict_yield averages the history values > 0 and, whenever none is
\* left (empty history, or only null, zero or negative values), uses 0.5, so
\* yield_per_ha is always a finite number
C18_YieldFallback ==
    (probe.done /\ probe.call = "predict_yield") =>
        /\ ~probe.result.yield_per_ha.nan
        /\ Positive(probe.ndvi_history) = <<>>
              => probe.result.yield_per_ha =
                     YieldPerHa(CropCoefficients(probe.crop_type),
                                [nan |-> FALSE, sum |-> 500, n |-> 1], probe.variation)

\* clamp(x, 0.01, 1.0) of a supplied number
ClaimedClamp(x) == Max2(10, Min2(1000, x))

\* C19: estimate_biomass computes with clamp(ndvi, 0.01, 1.0) and
\* clamp(rvi, 0.01, 1.0) for every supplied number, 0 and negative values
\* included, takes 0.5 only for an absent rvi, and so is non-decreasing in ndvi
\* for a fixed rvi and jitter
C19_BiomassClamp ==
    (probe.done /\ probe.call = "estimate_biomass") =>
        /\ probe.result.ndvi_safe = ClaimedClamp(probe.ndvi)
        /\ probe.result.rvi_safe = IF probe.rvi = None THEN 500 ELSE ClaimedClamp(probe.rvi[1])
        /\ \A ndvi \in BiomassIndices :
              ndvi >= probe.ndvi
                  => estimate_biomass(ndvi, probe.rvi, probe.variation).mean_biomass_t_ha
                         >= probe.result.mean_biomass_t_ha

FireCall == probe.done /\ probe.call = "fire_risk_score"

\* clamp(0, 100, 50*max(0, 1-ndmi) + 50*max(0, min(1, 0.5-nbr))) in
\* thousandths of a point
ClaimedFireRisk(nbr, ndmi) ==
    Max2(0, Min2(100000, 50 * Max2(0, 1000 - ndmi) + 50 * Max2(0, Min2(1000, 500 - nbr))))

\* C20 as stated: for nbr and ndmi in [-1, 1] the fire_risk_score equals
\* clamp(0, 100, 50*max(0, 1-ndmi) + 50*max(0, min(1, 0.5-nbr)))
C20_ScoreEqualsClamp ==
    FireCall => probe.result * 1000 = ClaimedFireRisk(probe.nbr, probe.ndmi)

\* C20 amended: for nbr and ndmi in [-1, 1] the fire_risk_score is a whole
\* number in [0, 100] that is at most the clamped value and at most one
\* point below it: the clamped value truncated, and exactly that whenever
\* both inputs are binary fractions
C20_ScoreTruncatesClamp ==
    FireCall =>
        /\ probe.result \in 0..100
        /\ probe.result * 1000 <= ClaimedFireRisk(probe.nbr, probe.ndmi)
        /\ probe.result * 1000 >= ClaimedFireRisk(probe.nbr, probe.ndmi) - 1000
        /\ (Dyadic(probe.nbr) /\ Dyadic(probe.ndmi))
              => probe.result = ClaimedFireRisk(probe.nbr, probe.ndmi) \div 1000

\* a score below a clamped value that is not whole
C20_Witness ==
    /\ FireCall
    /\ ClaimedFireRisk(probe.nbr, probe.ndmi) % 1000 # 0
    /\ probe.result * 1000 < ClaimedFireRisk(probe.nbr, probe.ndmi)

ForestReportCall == probe.done /\ probe.call = "generate_forest_detailed_report"

\* the label of a change of (current - baseline) / baseline * 100 percent,
\* for a baseline > 0
ClaimedCarbonTrend(current, baseline) ==
    IF (current - baseline) * 100 >= 5 * baseline THEN "Increasing - Carbon gain"
    ELSE IF (current - baseline) * 100 >= -2 * baseline THEN "Stable"
    ELSE IF (current - baseline) * 100 >= -10 * baseline THEN "Decreasing - Minor carbon loss"
    ELSE "Declining - Significant carbon loss"

\* C21: in a FOREST report, whenever the site has a baseline carbon value
\* (non-null) carbon_change_percent is (current - baseline)/baseline*100 and
\* carbon_trend is the threshold label of that change; carbon_change_percent
\* is null and carbon_trend is "Baseline not set" only when no baseline is
\* present
C21_CarbonChange ==
    ForestReportCall =>
        LET carbon == probe.result.carbon_sequestration
            baseline == probe.baseline_carbon
        IN  /\ (carbon.carbon_change_percent = None \/ carbon.carbon_trend = "Baseline not set")
                  => baseline = None
            /\ (baseline # None /\ baseline # Some(0))
                  => /\ carbon.carbon_change_percent =
                            Some(RoundDiv((probe.carbon_estimate - baseline[1]) * 1000, baseline[1]))
                     /\ carbon.carbon_trend = ClaimedCarbonTrend(probe.carbon_estimate, baseline[1])

HealthRank(status) ==
    CASE status = "Critical" -> 0 [] status = "Poor" -> 1 [] status = "Moderate" -> 2
      [] status = "Good" -> 3 [] status = "Excellent" -> 4

ClaimedHealthStatus(v) ==
    IF v < 300 THEN "Critical"
    ELSE IF v < 400 THEN "Poor"
    ELSE IF v < 500 THEN "Moderate"
    ELSE IF v < 700 THEN "Good"
    ELSE "Excellent"

\* C22: the NDVI health classifier returns Critical below 0.3, Poor in
\* [0.3, 0.4), Moderate in [0.4, 0.5), Good in [0.5, 0.7) and Excellent from
\* 0.7 for every number, and is monotone: a larger value never gets a lower
\* category
C22_HealthStatusMonotone ==
    (probe.done /\ probe.call = "get_health_status") =>
        /\ probe.result = ClaimedHealthStatus(probe.ndvi)
        /\ \A v \in HealthValues :
              /\ v >= probe.ndvi => HealthRank(get_health_status(v)) >= HealthRank(probe.result)
              /\ v <= probe.ndvi => HealthRank(get_health_status(v)) <= HealthRank(probe.result)

\* a value on a cut point got the higher category
C22_Witness ==
    /\ probe.done /\ probe.call = "get_health_status"
    /\ probe.ndvi = 700
    /\ probe.result = "Excellent"

\* clamp(0, 100, 40*ndvi + 30*(nbr+1)/2 + 30*(ndmi+1)/2) in thousandths
ClaimedForestScore(ndvi, nbr, ndmi) ==
    Max2(0, Min2(100000, 40 * ndvi + 15 * (nbr + 1000) + 15 * (ndmi + 1000)))

ClaimedForestStatus(score) ==
    IF score >= 75000 THEN "Excellent"
    ELSE IF score >= 60000 THEN "Good"
    ELSE IF score >= 45000 THEN "Moderate"
    ELSE IF score >= 30000 THEN "Poor"
    ELSE "Critical"

\* C23 as stated: overall_health_score equals
\* clamp(0, 100, 40*ndvi + 30*(nbr+1)/2 + 30*(ndmi+1)/2), health_status is
\* the label of that score (75 / 60 / 45 / 30), and ndvi = 0.6, nbr = 0.5,
\* ndmi = 0.5 gives 69 and Good
C23_ScoreEqualsClamp ==
    ForestReportCall =>
        LET claimed == ClaimedForestScore(probe.mean_value, probe.nbr, probe.ndmi) IN
        /\ probe.result.summary.overall_health_score * 100 = claimed
        /\ probe.result.summary.health_status = ClaimedForestStatus(claimed)

\* C23 amended: overall_health_score is the clamped value rounded to one
\* decimal; health_status is the label of the clamped value before that
\* rounding, where a value exactly on a cut point can get the label below
\* it unless every input is a binary fraction; ndvi = 0.6, nbr = 0.5,
\* ndmi = 0.5 gives 69.0 and Good
C23_ScoreRoundsClamp ==
    ForestReportCall =>
        LET claimed == ClaimedForestScore(probe.mean_value, probe.nbr, probe.ndmi)
            summary == probe.result.summary
        IN  /\ summary.overall_health_score * 100 - claimed \in -50..50
            /\ \/ summary.health_status = ClaimedForestStatus(claimed)
               \/ /\ claimed \in {75000, 60000, 45000, 30000}
                  /\ ~(Dyadic(probe.mean_value) /\ Dyadic(probe.nbr) /\ Dyadic(probe.ndmi))
                  /\ summary.health_status = ClaimedForestStatus(claimed - 1)
            /\ (probe.mean_value = 600 /\ probe.nbr = 500 /\ probe.ndmi = 500)
                  => summary.overall_health_score = 690 /\ summary.health_status = "Good"

\* a report that shows 75.0 with the status of the unrounded 74.95
C23_Witness ==
    /\ ForestReportCall
    /\ ClaimedForestScore(probe.mean_value, probe.nbr, probe.ndmi) = 74950
    /\ probe.result.summary.overall_health_score = 750
    /\ probe.result.summary.health_status = "Good"

\* C26: in a COMPLETE report a recommendation of priority "critical" never
\* comes after a recommendation of priority high, medium or low
C26_CriticalFirst ==
    ReportCall =>
        \A i, j \in DOMAIN probe.result.recommendations :
            (i < j /\ probe.result.recommendations[j].priority = "critical")
                => probe.result.recommendations[i].priority = "critical"

SeverityRank(severity) ==
    CASE severity = "LOW" -> 0 [] severity = "MEDIUM" -> 1
      [] severity = "HIGH" -> 2 [] severity = "CRITICAL" -> 3

\* the severities of the alert rules whose trigger condition holds for an input
TriggeredSeverities(analysis_type, mean_value, analysis_data) ==
    (IF analysis_type \in {"NDVI", "COMPLETE", "FUSION"}
     THEN (IF mean_value < 200 THEN {"CRITICAL"} ELSE {})
          \cup (IF mean_value < 300 THEN {"HIGH"} ELSE {})
          \cup (IF mean_value < 400 THEN {"MEDIUM"} ELSE {})
     ELSE {})
    \cup
    (IF analysis_type \in {"MOISTURE", "COMPLETE"}
     THEN (IF mean_value < 100 THEN {"CRITICAL"} ELSE {})
          \cup (IF mean_value < 200 THEN {"HIGH"} ELSE {})
     ELSE {})
    \cup
    (IF analysis_type = "FOREST" /\ analysis_data # None
     THEN (IF analysis_data[1].fire_risk_level = "critical" THEN {"CRITICAL"} ELSE {})
          \cup (IF analysis_data[1].fire_risk_level = "high" THEN {"HIGH"} ELSE {})
          \cup (IF analysis_data[1].deforestation_risk = "high" THEN {"CRITICAL"} ELSE {})
          \cup (IF analysis_data[1].ndmi < 150 THEN {"HIGH"} ELSE {})
     ELSE {})

\* C25: whenever create_alert_from_analysis emits an alert, the alert is at
\* least as severe as every alert rule whose trigger condition held for the
\* input: a less severe rule never displaces a more severe one
C25_MostSevereWins ==
    (probe.done /\ alerts # <<>>) =>
        \A severity \in TriggeredSeverities(probe.analysis_type, probe.mean_value, probe.analysis_data) :
            SeverityRank(alerts[Len(alerts)].severity) >= SeverityRank(severity)

\* a CRITICAL fire alert stands although the HIGH drought rule triggered too
C25_Witness ==
    /\ probe.done
    /\ probe.analysis_type = "FOREST"
    /\ probe.analysis_data # None
    /\ probe.analysis_data[1].fire_risk_level = "critical"
    /\ probe.analysis_data[1].ndmi < 150
    /\ Len(alerts) = 1
    /\ alerts[1].alert_type = "FIRE_RISK"
    /\ alerts[1].severity = "CRITICAL"

AlertsOf(i) == { a \in DOMAIN alerts : alerts[a].site_id = i }
AnalysesOf(i) == { k \in DOMAIN analyses : analyses[k].site_id = i }

\* C27: run_analysis creates an alert only after the analysis record of the
\* same run is committed: in every reachable state a site has at most as many
\* alerts as analysis records, and a step that stores an alert is taken by a
\* request whose record is already stored and leaves the records as they are
C27_AlertAfterRecord ==
    /\ [](\A i \in DOMAIN sites : Cardinality(AlertsOf(i)) <= Cardinality(AnalysesOf(i)))
    /\ [][ alerts' # alerts =>
             /\ analyses' = analyses
             /\ \E w \in Workers :
                   /\ reqs[w].pc = "recorded"
                   /\ reqs'[w].pc = "idle"
                   /\ Len(alerts') = Len(alerts) + 1
                   /\ alerts'[Len(alerts')].site_id = reqs[w].site.id
                   /\ AnalysesOf(reqs[w].site.id) # {} ]_vars

\* an alert is stored while another run has committed its record and not
\* yet decided on its alert
C27_Witness ==
    /\ alerts # <<>>
    /\ \E w \in Workers : reqs[w].pc = "recorded"
\* C24: a run that stores a FOREST record whose NBR and NDMI the acquisition
\* cutoffs classify as critical (nbr < 0.1) or high (nbr < 0.2 and
\* ndmi < 0.2) fire risk creates an alert in the same request: a FIRE_RISK
\* alert of the matching severity, or the CRITICAL DEFORESTATION alert
StoredForest(record) == record.analysis_type = "FOREST" /\ record.forest_data # None

AcquisitionFireSeverity(record) ==
    IF record.forest_data[1].nbr < 100 THEN "CRITICAL"
    ELSE IF record.forest_data[1].nbr < 200 /\ record.forest_data[1].ndmi < 200 THEN "HIGH"
    ELSE NULL

C24_FireRiskRaisesAlert ==
    [][ ( /\ Len(analyses') = Len(analyses) + 1
          /\ StoredForest(analyses'[Len(analyses')])
          /\ AcquisitionFireSeverity(analyses'[Len(analyses')]) # NULL )
        => /\ Len(alerts') = Len(alerts) + 1
           /\ alerts'[Len(alerts')].site_id = analyses'[Len(analyses')].site_id
           /\ \/ /\ alerts'[Len(alerts')].alert_type = "FIRE_RISK"
                 /\ alerts'[Len(alerts')].severity =
                        AcquisitionFireSeverity(analyses'[Len(analyses')])
              \/ /\ alerts'[Len(alerts')].alert_type = "DEFORESTATION"
                 /\ alerts'[Len(alerts')].severity = "CRITICAL" ]_vars

\* C28: a run_analysis request whose acquisition call raises, or whose site
\* does not exist or belongs to another user, is answered 503 or 404 and
\* leaves the sites, the analysis records and the alerts as they were
RunAnalysisAnswered == probe'.done /\ "call" \in DOMAIN probe' /\ probe'.call = "run_analysis"

C28_FailedRunChangesNothing ==
    [][ ( /\ RunAnalysisAnswered
          /\ \/ probe'.fetch = "raised"
             \/ probe'.site_id \notin DOMAIN sites
             \/ sites[probe'.site_id].user_id # probe'.user )
        => /\ probe'.status \in {503, 404}
           /\ sites' = sites
           /\ analyses' = analyses
           /\ alerts' = alerts ]_vars

\* a 503 answered to the owner of a site that already has a record and a
\* baseline, both still in place
C28_Witness ==
    /\ probe.done /\ "call" \in DOMAIN probe /\ probe.call = "run_analysis"
    /\ probe.status = 503 /\ probe.fetch = "raised"
    /\ \E k \in DOMAIN analyses : analyses[k].site_id = probe.site_id
    /\ sites[probe.site_id].baseline_carbon_t_ha # None

\* C29: the biomass endpoint answers with the estimate for the mean of the
\* newest NDVI record and the mean of the newest RVI record among the five
\* latest records of the site, 0.5 standing in for a missing one
NewestMean(site_id, analysis_type) ==
    LET five == { LatestFive(site_id)[n] : n \in DOMAIN LatestFive(site_id) }
        typed == { k \in five : analyses[k].analysis_type = analysis_type }
    IN  IF typed = {} THEN 500 ELSE analyses[Latest(typed)].mean_value

C29_BiomassFromNewest ==
    ( probe.done /\ "call" \in DOMAIN probe /\ probe.call = "estimate_biomass"
      /\ probe.status = 200 )
    => probe.response = Some(estimate_biomass(NewestMean(probe.site_id, "NDVI"),
                                              Some(NewestMean(probe.site_id, "RVI")),
                                              probe.variation))

\* C30: for a FOREST site with a stored FOREST record, list_sites answers
\* latest_nbr and fire_risk_level with the values stored in the newest
\* FOREST record of the site
C30_ListSitesForestFields ==
    ( probe.done /\ "call" \in DOMAIN probe /\ probe.call = "list_sites" )
    => \A i \in DOMAIN probe.response :
         LET forest_analyses == { k \in DOMAIN analyses :
                                    analyses[k].site_id = i /\ StoredForest(analyses[k]) }
         IN  ( sites[i].site_type = "FOREST" /\ forest_analyses # {} )
             => /\ probe.response[i].latest_nbr =
                      Some(analyses[Latest(forest_analyses)].forest_data[1].nbr)
                /\ probe.response[i].fire_risk_level =
                      Some(analyses[Latest(forest_analyses)].forest_data[1].fire_risk_level)

====
